---- MODULE Spec2Model ----
(***************************************************************************)
(* Model of the wedding-sc-be lambdas: the comment listing protocol (page  *)
(* index and cursor addressing), the cursor codec, comment creation and    *)
(* the subscription create / delete handlers, over a DynamoDB-like store.  *)
(*                                                                         *)
(* Text is modelled as a sequence of character codes (Unicode code points) *)
(* so that JSON, UTF-8 and base64 are computed, not assumed.               *)
(***************************************************************************)
EXTENDS Integers, Sequences, FiniteSets, TLC

(***************************************************************************)
(* Text helpers                                                            *)
(***************************************************************************)

\* Printable ASCII, codes 32..126, in code order; "DQ" names the double quote,
\* "BS" the backslash and "BT" the backtick.
Ascii ==
  << " ", "!", "DQ", "#", "$", "%", "&", "'", "(", ")", "*", "+", ",", "-", ".", "/",
     "0", "1", "2", "3", "4", "5", "6", "7", "8", "9", ":", ";", "<", "=", ">", "?",
     "@", "A", "B", "C", "D", "E", "F", "G", "H", "I", "J", "K", "L", "M", "N", "O",
     "P", "Q", "R", "S", "T", "U", "V", "W", "X", "Y", "Z", "[", "BS", "]", "^", "_",
     "BT", "a", "b", "c", "d", "e", "f", "g", "h", "i", "j", "k", "l", "m", "n", "o",
     "p", "q", "r", "s", "t", "u", "v", "w", "x", "y", "z", "{", "|", "}", "~" >>

OrdTable == [c \in {Ascii[i] : i \in 1..Len(Ascii)} |->
               31 + (CHOOSE i \in 1..Len(Ascii) : Ascii[i] = c)]

\* The code of a printable ASCII character.
Ord(c) == OrdTable[c]

\* A text literal: the codes of a sequence of one-character strings.
T(chars) == [i \in 1..Len(chars) |-> Ord(chars[i])]

\* The texts of a sequence joined, by halves.
RECURSIVE Concat(_)
Concat(ss) ==
  IF ss = <<>> THEN <<>>
  ELSE IF Len(ss) = 1 THEN ss[1]
  ELSE LET h == Len(ss) \div 2
       IN Concat(SubSeq(ss, 1, h)) \o Concat(SubSeq(ss, h + 1, Len(ss)))

\* Lexicographic order on texts (the store's order on string sort keys).
RECURSIVE LexLess(_, _)
LexLess(a, b) ==
  IF b = <<>> THEN FALSE
  ELSE IF a = <<>> THEN TRUE
  ELSE IF Head(a) # Head(b) THEN Head(a) < Head(b)
  ELSE LexLess(Tail(a), Tail(b))

IsSpace(c) == c \in {9, 10, 11, 12, 13, 32, 160}

\* String.prototype.trim
RECURSIVE TrimLeft(_)
TrimLeft(s) == IF s # <<>> /\ IsSpace(Head(s)) THEN TrimLeft(Tail(s)) ELSE s

RECURSIVE TrimRight(_)
TrimRight(s) ==
  IF s # <<>> /\ IsSpace(s[Len(s)]) THEN TrimRight(SubSeq(s, 1, Len(s) - 1)) ELSE s

Trim(s) == TrimRight(TrimLeft(s))

\* String.prototype.split on one separator character: the pieces between
\* the separators, one piece (the whole text) when there is none.
RECURSIVE Split(_, _)
Split(s, sep) ==
  IF \A k \in 1..Len(s) : s[k] # sep THEN <<s>>
  ELSE LET k == CHOOSE i \in 1..Len(s) : s[i] = sep /\ \A h \in 1..(i - 1) : s[h] # sep
       IN <<SubSeq(s, 1, k - 1)>> \o Split(SubSeq(s, k + 1, Len(s)), sep)

\* String.prototype.toLowerCase on the modelled alphabet (A-Z, Latin-1 capitals).
ToLowerCase(s) ==
  [i \in 1..Len(s) |->
     IF (s[i] >= 65 /\ s[i] <= 90) \/ (s[i] >= 192 /\ s[i] <= 222 /\ s[i] # 215)
     THEN s[i] + 32 ELSE s[i]]

(***************************************************************************)
(* JavaScript values: [t |-> tag, v |-> payload], the payload always a     *)
(* sequence: a text for "str", <<n>> for "num", <<0>>/<<1>> for "bool", a  *)
(* sequence of <<name, value>> properties (insertion order) for "obj", a   *)
(* sequence of values for "arr".                                           *)
(***************************************************************************)
Undefined == [t |-> "undefined", v |-> <<>>]
Null == [t |-> "null", v |-> <<>>]
JsStr(s) == [t |-> "str", v |-> s]
JsNum(n) == [t |-> "num", v |-> <<n>>]
JsBool(b) == [t |-> "bool", v |-> IF b THEN <<1>> ELSE <<0>>]
JsObj(props) == [t |-> "obj", v |-> props]
JsArr(elems) == [t |-> "arr", v |-> elems]

\* JavaScript truthiness (ToBoolean).
Truthy(x) ==
  CASE x.t = "undefined" -> FALSE
    [] x.t = "null" -> FALSE
    [] x.t = "bool" -> x.v = <<1>>
    [] x.t = "num" -> x.v # <<0>>
    [] x.t = "str" -> x.v # <<>>
    [] OTHER -> TRUE

(***************************************************************************)
(* JSON.stringify / JSON.parse on the modelled values.  Numbers are        *)
(* integers; property names are not integer-like (JavaScript would reorder *)
(* those).                                                                 *)
(***************************************************************************)
HexDigit(n) == IF n < 10 THEN 48 + n ELSE 87 + n

RECURSIVE NatToText(_)
NatToText(n) == IF n < 10 THEN <<48 + n>> ELSE NatToText(n \div 10) \o <<48 + (n % 10)>>

IntToText(n) == IF n < 0 THEN <<45>> \o NatToText(0 - n) ELSE NatToText(n)

\* One character of a string literal as JSON.stringify writes it.
EscapeChar(c) ==
  CASE c = 34 -> <<92, 34>>
    [] c = 92 -> <<92, 92>>
    [] c = 8 -> <<92, 98>>
    [] c = 9 -> <<92, 116>>
    [] c = 10 -> <<92, 110>>
    [] c = 12 -> <<92, 102>>
    [] c = 13 -> <<92, 114>>
    [] c < 32 -> <<92, 117, 48, 48, HexDigit(c \div 16), HexDigit(c % 16)>>
    [] OTHER -> <<c>>

Quote(s) == <<34>> \o Concat([i \in 1..Len(s) |-> EscapeChar(s[i])]) \o <<34>>

RECURSIVE JoinComma(_)
JoinComma(parts) ==
  IF parts = <<>> THEN <<>>
  ELSE IF Len(parts) = 1 THEN parts[1]
  ELSE parts[1] \o <<44>> \o JoinComma(Tail(parts))

\* The properties JSON.stringify writes: those whose value is not undefined.
RECURSIVE DefinedProps(_)
DefinedProps(props) ==
  IF props = <<>> THEN <<>>
  ELSE IF Head(props)[2].t = "undefined" THEN DefinedProps(Tail(props))
  ELSE <<Head(props)>> \o DefinedProps(Tail(props))

RECURSIVE JsonStringify(_)
JsonStringify(x) ==
  CASE x.t = "null" -> T(<<"n", "u", "l", "l">>)
    [] x.t = "bool" ->
         IF x.v = <<1>> THEN T(<<"t", "r", "u", "e">>) ELSE T(<<"f", "a", "l", "s", "e">>)
    [] x.t = "num" -> IntToText(x.v[1])
    [] x.t = "str" -> Quote(x.v)
    [] x.t = "arr" ->
         <<91>>
         \o JoinComma([i \in 1..Len(x.v) |->
              IF x.v[i].t = "undefined" THEN T(<<"n", "u", "l", "l">>)
              ELSE JsonStringify(x.v[i])])
         \o <<93>>
    [] x.t = "obj" ->
         LET ps == DefinedProps(x.v) IN
         <<123>>
         \o JoinComma([i \in 1..Len(ps) |->
              Quote(ps[i][1]) \o <<58>> \o JsonStringify(ps[i][2])])
         \o <<125>>

\* Parse results: ok, the value, and the index of the first unread character.
ParseFail == [ok |-> FALSE, val |-> Undefined, pos |-> 0]
ParseOk(val, pos) == [ok |-> TRUE, val |-> val, pos |-> pos]

IsJsonSpace(c) == c \in {9, 10, 13, 32}
IsDigit(c) == c >= 48 /\ c <= 57
IsHex(c) == IsDigit(c) \/ (c >= 97 /\ c <= 102) \/ (c >= 65 /\ c <= 70)
HexVal(c) == IF IsDigit(c) THEN c - 48 ELSE IF c >= 97 THEN c - 87 ELSE c - 55

RECURSIVE SkipSpace(_, _)
SkipSpace(s, i) == IF i <= Len(s) /\ IsJsonSpace(s[i]) THEN SkipSpace(s, i + 1) ELSE i

StartsWith(s, i, lit) ==
  i + Len(lit) - 1 <= Len(s) /\ SubSeq(s, i, i + Len(lit) - 1) = lit

\* The value of an expression taken once: Once(v, F) is F(v).
Once(v, F(_)) == CHOOSE r \in {F(x) : x \in {v}} : TRUE

\* The first index from i of a quote, a backslash or a control character
\* (0: none).
FirstStop(s, i) ==
  Once({k \in i..Len(s) : s[k] = 34 \/ s[k] = 92 \/ s[k] < 32},
       LAMBDA stops : IF stops = {} THEN 0 ELSE CHOOSE x \in stops : \A y \in stops : x <= y)

\* The body of a string literal, from index i (after the opening quote):
\* the characters up to the next quote, backslash or control character are
\* taken in one piece.
RECURSIVE ParseStringBody(_, _, _)
RECURSIVE ParseStringStop(_, _, _)
ParseStringBody(s, i, acc) ==
  Once(<<i, acc>>, LAMBDA a :
    Once(FirstStop(s, a[1]), LAMBDA k :
      IF k = 0 THEN ParseFail
      ELSE ParseStringStop(s, k, a[2] \o SubSeq(s, a[1], k - 1))))

\* At a quote, a backslash or a control character, with the text before it.
ParseStringStop(s, k, run) ==
  IF s[k] = 34 THEN ParseOk(JsStr(run), k + 1)
  ELSE IF s[k] < 32 THEN ParseFail
  ELSE IF k + 1 > Len(s) THEN ParseFail
  ELSE LET e == s[k + 1] IN
       CASE e = 34 -> ParseStringBody(s, k + 2, Append(run, 34))
         [] e = 92 -> ParseStringBody(s, k + 2, Append(run, 92))
         [] e = 47 -> ParseStringBody(s, k + 2, Append(run, 47))
         [] e = 98 -> ParseStringBody(s, k + 2, Append(run, 8))
         [] e = 102 -> ParseStringBody(s, k + 2, Append(run, 12))
         [] e = 110 -> ParseStringBody(s, k + 2, Append(run, 10))
         [] e = 114 -> ParseStringBody(s, k + 2, Append(run, 13))
         [] e = 116 -> ParseStringBody(s, k + 2, Append(run, 9))
         [] e = 117 ->
              IF k + 5 <= Len(s) /\ \A m \in 2..5 : IsHex(s[k + m])
              THEN ParseStringBody(s, k + 6,
                     Append(run, HexVal(s[k + 2]) * 4096 + HexVal(s[k + 3]) * 256
                                 + HexVal(s[k + 4]) * 16 + HexVal(s[k + 5])))
              ELSE ParseFail
         [] OTHER -> ParseFail

RECURSIVE ParseDigits(_, _, _)
ParseDigits(s, i, acc) ==
  IF i <= Len(s) /\ IsDigit(s[i]) THEN ParseDigits(s, i + 1, acc * 10 + (s[i] - 48))
  ELSE [val |-> acc, pos |-> i]

\* An integer literal: -? (0 | [1-9][0-9]*).
ParseNumber(s, i) ==
  LET neg == i <= Len(s) /\ s[i] = 45
      j == IF neg THEN i + 1 ELSE i
  IN IF j > Len(s) \/ ~IsDigit(s[j]) THEN ParseFail
     ELSE IF s[j] = 48 THEN ParseOk(JsNum(0), j + 1)
     ELSE LET d == ParseDigits(s, j, 0)
          IN ParseOk(JsNum(IF neg THEN 0 - d.val ELSE d.val), d.pos)

\* Assignment of a parsed property: a repeated name keeps its place and
\* takes the later value.
SetProp(props, name, val) ==
  IF \E k \in 1..Len(props) : props[k][1] = name
  THEN [k \in 1..Len(props) |-> IF props[k][1] = name THEN <<name, val>> ELSE props[k]]
  ELSE Append(props, <<name, val>>)

RECURSIVE ParseValue(_, _)
RECURSIVE ParseMembers(_, _, _)
RECURSIVE ParseElements(_, _, _)

\* Members of an object from index i (at a property name), up to the "}".
ParseMembers(s, i, acc) ==
  Once(SkipSpace(s, i), LAMBDA j :
    IF j > Len(s) \/ s[j] # 34 THEN ParseFail
    ELSE Once(ParseStringBody(s, j + 1, <<>>), LAMBDA name :
      IF ~name.ok THEN ParseFail
      ELSE Once(SkipSpace(s, name.pos), LAMBDA c :
        IF c > Len(s) \/ s[c] # 58 THEN ParseFail
        ELSE Once(ParseValue(s, c + 1), LAMBDA val :
          IF ~val.ok THEN ParseFail
          ELSE Once(<<SkipSpace(s, val.pos), SetProp(acc, name.val.v, val.val)>>, LAMBDA ep :
            IF ep[1] > Len(s) THEN ParseFail
            ELSE IF s[ep[1]] = 125 THEN ParseOk(JsObj(ep[2]), ep[1] + 1)
            ELSE IF s[ep[1]] = 44 THEN ParseMembers(s, ep[1] + 1, ep[2])
            ELSE ParseFail)))))

\* Elements of an array from index i (at a value), up to the "]".
ParseElements(s, i, acc) ==
  Once(ParseValue(s, i), LAMBDA val :
    IF ~val.ok THEN ParseFail
    ELSE Once(<<SkipSpace(s, val.pos), Append(acc, val.val)>>, LAMBDA ep :
      IF ep[1] > Len(s) THEN ParseFail
      ELSE IF s[ep[1]] = 93 THEN ParseOk(JsArr(ep[2]), ep[1] + 1)
      ELSE IF s[ep[1]] = 44 THEN ParseElements(s, ep[1] + 1, ep[2])
      ELSE ParseFail))

ParseValue(s, i) ==
  Once(SkipSpace(s, i), LAMBDA j :
    IF j > Len(s) THEN ParseFail
    ELSE CASE s[j] = 34 -> ParseStringBody(s, j + 1, <<>>)
           [] s[j] = 123 ->
                Once(SkipSpace(s, j + 1), LAMBDA k :
                  IF k <= Len(s) /\ s[k] = 125 THEN ParseOk(JsObj(<<>>), k + 1)
                  ELSE ParseMembers(s, j + 1, <<>>))
           [] s[j] = 91 ->
                Once(SkipSpace(s, j + 1), LAMBDA k :
                  IF k <= Len(s) /\ s[k] = 93 THEN ParseOk(JsArr(<<>>), k + 1)
                  ELSE ParseElements(s, j + 1, <<>>))
           [] s[j] = 45 \/ IsDigit(s[j]) -> ParseNumber(s, j)
           [] StartsWith(s, j, T(<<"n", "u", "l", "l">>)) -> ParseOk(Null, j + 4)
           [] StartsWith(s, j, T(<<"t", "r", "u", "e">>)) -> ParseOk(JsBool(TRUE), j + 4)
           [] StartsWith(s, j, T(<<"f", "a", "l", "s", "e">>)) -> ParseOk(JsBool(FALSE), j + 5)
           [] OTHER -> ParseFail)

\* The whole text is one value, white space around it allowed.
ParseText(s) ==
  Once(ParseValue(s, 1), LAMBDA r :
    IF r.ok /\ SkipSpace(s, r.pos) > Len(s) THEN [ok |-> TRUE, val |-> r.val]
    ELSE [ok |-> FALSE, val |-> Undefined])

\* JSON.parse: [ok, val]; ok = FALSE stands for the SyntaxError it throws.
JsonParse(s) == Once(s, ParseText)

(***************************************************************************)
(* UTF-8 (Buffer.from(text, "utf8"), buf.toString("utf8")) and base64      *)
(* (buf.toString("base64"), Buffer.from(text, "base64")).                  *)
(***************************************************************************)
Utf8EncodeChar(c) ==
  IF c < 128 THEN <<c>>
  ELSE IF c < 2048 THEN <<192 + (c \div 64), 128 + (c % 64)>>
  ELSE IF c < 65536
  THEN <<224 + (c \div 4096), 128 + ((c \div 64) % 64), 128 + (c % 64)>>
  ELSE <<240 + (c \div 262144), 128 + ((c \div 4096) % 64),
         128 + ((c \div 64) % 64), 128 + (c % 64)>>

Utf8Encode(s) == Concat([i \in 1..Len(s) |-> Utf8EncodeChar(s[i])])

IsCont(b) == b >= 128 /\ b <= 191

\* Decoding never fails: an ill-formed byte becomes U+FFFD (65533).
RECURSIVE Utf8DecodeFrom(_, _, _)
Utf8DecodeFrom(b, i, acc) ==
  IF i > Len(b) THEN acc
  ELSE IF b[i] < 128 THEN Utf8DecodeFrom(b, i + 1, Append(acc, b[i]))
  ELSE IF b[i] >= 194 /\ b[i] <= 223 /\ i + 1 <= Len(b) /\ IsCont(b[i + 1])
       THEN Utf8DecodeFrom(b, i + 2, Append(acc, (b[i] - 192) * 64 + (b[i + 1] - 128)))
  ELSE IF b[i] >= 224 /\ b[i] <= 239 /\ i + 2 <= Len(b)
          /\ IsCont(b[i + 1]) /\ IsCont(b[i + 2])
          /\ (b[i] - 224) * 4096 + (b[i + 1] - 128) * 64 >= 2048
       THEN Utf8DecodeFrom(b, i + 3,
              Append(acc, (b[i] - 224) * 4096 + (b[i + 1] - 128) * 64 + (b[i + 2] - 128)))
  ELSE IF b[i] >= 240 /\ b[i] <= 244 /\ i + 3 <= Len(b)
          /\ IsCont(b[i + 1]) /\ IsCont(b[i + 2]) /\ IsCont(b[i + 3])
          /\ (b[i] - 240) * 262144 + (b[i + 1] - 128) * 4096 >= 65536
          /\ (b[i] - 240) * 262144 + (b[i + 1] - 128) * 4096 < 1114112
       THEN Utf8DecodeFrom(b, i + 4,
              Append(acc, (b[i] - 240) * 262144 + (b[i + 1] - 128) * 4096
                          + (b[i + 2] - 128) * 64 + (b[i + 3] - 128)))
  ELSE Utf8DecodeFrom(b, i + 1, Append(acc, 65533))

\* buf.toString("latin1"): one character per byte.
Latin1Decode(b) == b

Utf8Decode(b) == Utf8DecodeFrom(b, 1, <<>>)

\* The character of a 6-bit value in the standard alphabet.
B64Char(n) ==
  IF n < 26 THEN 65 + n
  ELSE IF n < 52 THEN 71 + n
  ELSE IF n < 62 THEN n - 4
  ELSE IF n = 62 THEN 43 ELSE 47

\* The 6-bit value of a character, -1 for a character of neither alphabet
\* (the decoder also accepts the URL-safe "-" and "_").
Unbase64(c) ==
  IF c >= 65 /\ c <= 90 THEN c - 65
  ELSE IF c >= 97 /\ c <= 122 THEN c - 71
  ELSE IF c >= 48 /\ c <= 57 THEN c + 4
  ELSE IF c = 43 \/ c = 45 THEN 62
  ELSE IF c = 47 \/ c = 95 THEN 63
  ELSE 0 - 1

\* buf.toString("base64"): character j of the output, "=" for padding.
Base64Encode(b) ==
  LET n == Len(b)
      At(k) == IF k <= n THEN b[k] ELSE 0
  IN [j \in 1..(4 * ((n + 2) \div 3)) |->
        LET g == 3 * ((j - 1) \div 4)
            r == (j - 1) % 4
        IN CASE r = 0 -> B64Char(At(g + 1) \div 4)
             [] r = 1 -> B64Char((At(g + 1) % 4) * 16 + (At(g + 2) \div 16))
             [] r = 2 -> IF g + 2 > n THEN 61
                         ELSE B64Char((At(g + 2) % 16) * 4 + (At(g + 3) \div 64))
             [] OTHER -> IF g + 3 > n THEN 61 ELSE B64Char(At(g + 3) % 64)]

\* The 6-bit values the lenient decoder reads: characters of neither
\* alphabet are skipped, "=" ends the input.
Sextets(s) ==
  LET stop == IF \E i \in 1..Len(s) : s[i] = 61
              THEN CHOOSE i \in 1..Len(s) : s[i] = 61 /\ \A k \in 1..(i - 1) : s[k] # 61
              ELSE Len(s) + 1
      kept == SelectSeq(SubSeq(s, 1, stop - 1), LAMBDA c : Unbase64(c) >= 0)
  IN [i \in 1..Len(kept) |-> Unbase64(kept[i])]

\* Four 6-bit values give three bytes; a final group of two gives one byte,
\* of three gives two, a single left-over value gives none.
SextetsToBytes(q) ==
  [k \in 1..((Len(q) * 6) \div 8) |->
     LET g == 4 * ((k - 1) \div 3)
         r == (k - 1) % 3
     IN CASE r = 0 -> q[g + 1] * 4 + (q[g + 2] \div 16)
          [] r = 1 -> (q[g + 2] % 16) * 16 + (q[g + 3] \div 4)
          [] OTHER -> (q[g + 3] % 4) * 64 + q[g + 4]]

Base64Decode(s) == SextetsToBytes(Sextets(s))

(***************************************************************************)
(* Cursor codec                                                            *)
(***************************************************************************)
\* encodeCursor(lek): undefined for a falsy argument.
encodeCursor(lek) ==
  IF Truthy(lek) THEN JsStr(Base64Encode(Utf8Encode(JsonStringify(lek)))) ELSE Undefined

\* decodeCursor(cursor): undefined for a falsy cursor or when JSON.parse
\* throws; otherwise whatever JSON.parse returns.
\* try { return JSON.parse(text) } catch { return undefined }
ParsedOrUndefined(r) == IF r.ok THEN r.val ELSE Undefined

decodeCursor(cursor) ==
  IF ~Truthy(cursor) THEN Undefined
  ELSE ParsedOrUndefined(JsonParse(Utf8Decode(Base64Decode(cursor.v))))

(***************************************************************************)
(* Bounds of the model                                                     *)
(***************************************************************************)
\* Comments the store may hold in total.
MaxComments == 4
\* Items one COUNT query reads before the store cuts the answer (the model's
\* stand-in for the store's 1 MB answer size).
ScanCap == 2
\* Largest pageIndex a client asks for.
MaxPageIndex == 3
\* Comment-creation invocations and subscription invocations that may overlap.
NumCreators == 2
NumSubscribers == 3

(***************************************************************************)
(* Configuration (environment defaults)                                    *)
(***************************************************************************)
\* comment-read (cursor mode): DEFAULT_PAGE_SIZE, and the hard upper limit.
DefaultLimit == 20
MaxLimit == 1000
\* comment-read (page-index mode): DEFAULT_PAGE_SIZE, MAX_PAGE_SIZE.
DefaultPageSize == 20
MaxPageSize == 100
\* DEFAULT_ORDER
DefaultOrder == T(<<"d", "e", "s", "c">>)

(***************************************************************************)
(* The state                                                               *)
(***************************************************************************)
VARIABLES
  comments,     \* the comments table: a set of items
  subs,         \* the subscriptions table: a set of rows
  topic,        \* the comment-created events the topic accepted, in order
  useRecaptcha, \* conf.use_recaptcha of the deployment
  lreq,         \* the list invocation in progress
  trav,         \* the client's cursor traversal: what it asked and got
  cinv,         \* the comment-creation invocations
  sinv,         \* the subscription invocations (create and delete)
  codec,        \* the cursor codec applied to one input
  vinv,         \* the captcha-validator invocation
  kinv,         \* the contact-us invocation
  uinv,         \* the unsubscribe (link or API) invocation
  einv,         \* the response envelope applied to one input
  ninv,         \* the notification-manager invocation
  dinv,         \* the email-dispatcher invocation
  emails        \* the messages the email topic accepted, in order

vars == <<comments, subs, topic, useRecaptcha, lreq, trav, cinv, sinv, codec,
          vinv, kinv, uinv, einv, ninv, dinv, emails>>

(***************************************************************************)
(* The comments table: partition key photoId, sort key                     *)
(* "createdAt#commentId".                                                  *)
(***************************************************************************)
P1 == T(<<"p", "1">>)
P2 == T(<<"p", "2">>)
AttrPhotoId == T(<<"p", "h", "o", "t", "o", "I", "d">>)
AttrSk == T(<<"c", "r", "e", "a", "t", "e", "d", "A", "t", "#",
              "c", "o", "m", "m", "e", "n", "t", "I", "d">>)
AttrS == T(<<"S">>)

\* Object property lookup: undefined when absent.
GetProp(x, name) ==
  IF x.t = "obj" /\ \E k \in 1..Len(x.v) : x.v[k][1] = name
  THEN x.v[CHOOSE k \in 1..Len(x.v) : x.v[k][1] = name][2]
  ELSE Undefined

\* The AttributeValue {S: text}.
AttrString(s) == JsObj(<< <<AttrS, JsStr(s)>> >>)

\* The primary key of a comment item, as the store returns it in
\* LastEvaluatedKey.
CommentKey(item) ==
  JsObj(<< <<AttrPhotoId, AttrString(item.photoId)>>, <<AttrSk, AttrString(item.sk)>> >>)

IsAttrString(x) == x.t = "obj" /\ Len(x.v) = 1 /\ x.v[1][1] = AttrS /\ x.v[1][2].t = "str"

\* A value the store accepts as ExclusiveStartKey of the comments table.
IsCommentKey(x) ==
  /\ x.t = "obj"
  /\ Len(x.v) = 2
  /\ {x.v[1][1], x.v[2][1]} = {AttrPhotoId, AttrSk}
  /\ IsAttrString(x.v[1][2])
  /\ IsAttrString(x.v[2][2])

KeyPhotoId(k) == GetProp(k, AttrPhotoId).v[1][2].v
KeySk(k) == GetProp(k, AttrSk).v[1][2].v

\* The items of a set in scan order: ascending sort key when forward.
RECURSIVE ScanOrder(_, _)
ScanOrder(items, forward) ==
  IF items = {} THEN <<>>
  ELSE LET first == CHOOSE x \in items :
                      \A y \in items \ {x} :
                        IF forward THEN LexLess(x.sk, y.sk) ELSE LexLess(y.sk, x.sk)
       IN <<first>> \o ScanOrder(items \ {first}, forward)

Partition(table, photoId) == {x \in table : x.photoId = photoId}

QueryThrows == [ok |-> FALSE, Items |-> <<>>, LastEvaluatedKey |-> Undefined, Count |-> 0]

\* Query of one partition.  limit = 0 stands for no Limit, cap = 0 for no
\* cut of the answer.  The store stops after Limit items and then always
\* reports the last key it read, also when nothing follows it; it stops
\* after cap items only when more follow.  An ExclusiveStartKey that is not
\* a key of the partition is refused (ValidationException); null and
\* undefined are no start key.
Query(table, photoId, limit, startKey, forward, cap) ==
  IF startKey.t \notin {"undefined", "null"}
     /\ ~(IsCommentKey(startKey) /\ KeyPhotoId(startKey) = photoId)
  THEN QueryThrows
  ELSE
    LET all == ScanOrder(Partition(table, photoId), forward)
        rest == IF startKey.t \in {"undefined", "null"} THEN all
                ELSE SelectSeq(all, LAMBDA x :
                       IF forward THEN LexLess(KeySk(startKey), x.sk)
                       ELSE LexLess(x.sk, KeySk(startKey)))
        atLimit == limit > 0 /\ Len(rest) >= limit /\ (cap = 0 \/ limit <= cap)
        atCap == ~atLimit /\ cap > 0 /\ Len(rest) > cap
        n == IF atLimit THEN limit ELSE IF atCap THEN cap ELSE Len(rest)
        got == SubSeq(rest, 1, n)
    IN [ok |-> TRUE,
        Items |-> got,
        LastEvaluatedKey |-> IF (atLimit \/ atCap) /\ n > 0
                             THEN CommentKey(got[n]) ELSE Undefined,
        Count |-> n]

(***************************************************************************)
(* Response envelope                                                       *)
(***************************************************************************)
success(statusCode, body) == [statusCode |-> statusCode, body |-> body]

failure(statusCode, errorCode, message) ==
  success(statusCode, [errorCode |-> errorCode, message |-> message])

NoResp == [statusCode |-> 0, body |-> [errorCode |-> "", message |-> ""]]

(***************************************************************************)
(* Comment listing: request parsing                                        *)
(***************************************************************************)
NaN == [nan |-> TRUE, n |-> 0]

\* parseInt(text, 10): leading white space, an optional sign, then digits up
\* to the first other character; NaN without a digit.
ParseInt10(s) ==
  LET t == TrimLeft(s)
      neg == t # <<>> /\ t[1] = 45
      u == IF t # <<>> /\ t[1] \in {43, 45} THEN Tail(t) ELSE t
  IN IF u = <<>> \/ ~IsDigit(u[1]) THEN NaN
     ELSE LET d == ParseDigits(u, 1, 0)
          IN [nan |-> FALSE, n |-> IF neg THEN 0 - d.val ELSE d.val]

\* ToString(raw) of a query-string value: undefined reads "undefined".
RawText(raw) == IF raw.t = "str" THEN raw.v ELSE T(<<"u", "n", "d", "e", "f", "i", "n", "e", "d">>)

\* raw ?? fallback
OrElse(raw, fallback) == IF raw.t \in {"undefined", "null"} THEN fallback ELSE raw

parseOrder(raw) ==
  IF raw.t = "str" /\ ToLowerCase(raw.v) = T(<<"a", "s", "c">>) THEN "asc" ELSE "desc"

parseIntOr(raw, fallback) ==
  LET n == ParseInt10(RawText(raw)) IN IF n.nan THEN fallback ELSE n.n

\* Cursor mode, lines 53-57: the effective limit.
parseLimit(raw) ==
  LET n == ParseInt10(OrElse(raw, JsStr(<<>>)).v)
      limit == IF n.nan \/ n.n <= 0 THEN DefaultLimit ELSE n.n
  IN IF limit > MaxLimit THEN MaxLimit ELSE limit

\* Page-index mode: the effective page size and page index.
parsePageSize(raw) ==
  LET n == parseIntOr(raw, DefaultPageSize)
      low == IF n < 1 THEN 1 ELSE n
  IN IF low > MaxPageSize THEN MaxPageSize ELSE low

\* A page index that is always the first.
parsePageIndexFirst(raw) == 1

parsePageIndex(raw) == LET n == parseIntOr(raw, 1) IN IF n > 1 THEN n ELSE 1

\* What parseAndValidateRequest returns in cursor mode; ok = FALSE is null.
parseAndValidateRequestB(ev) ==
  IF ~Truthy(ev.photoId) THEN [ok |-> FALSE]
  ELSE [ok |-> TRUE,
        photoId |-> ev.photoId.v,
        limit |-> parseLimit(ev.limit),
        order |-> parseOrder(OrElse(ev.order, JsStr(DefaultOrder))),
        exclusiveStartKey |->
          decodeCursor(IF ev.cursor.t = "str" /\ Len(ev.cursor.v) > 0
                       THEN ev.cursor ELSE Undefined)]

\* What parseAndValidateRequest returns in page-index mode.
parseAndValidateRequestA(ev) ==
  IF ~Truthy(ev.photoId) THEN [ok |-> FALSE]
  ELSE [ok |-> TRUE,
        photoId |-> ev.photoId.v,
        pageIndex |-> parsePageIndex(ev.pageIndex),
        pageSize |-> parsePageSize(ev.pageSize),
        order |-> parseOrder(OrElse(ev.order, JsStr(DefaultOrder)))]

(***************************************************************************)
(* Comment listing: the queries                                            *)
(***************************************************************************)
\* A page fetch that drops the start key.
pageQueryFromStart(table, r) ==
  Query(table, r.photoId, r.limit, Undefined, r.order = "asc", 0)

\* The page fetch of cursor mode.
pageQuery(table, r) ==
  Query(table, r.photoId, r.limit, r.startKey, r.order = "asc", 0)

\* A walk that asks the first page at every iteration.
walkQueryFromStart(table, r) ==
  Query(table, r.photoId, r.limit, Undefined, r.order = "asc", 0)

\* One iteration of queryPage's loop: the query from the last key.
walkQuery(table, r) ==
  Query(table, r.photoId, r.limit, r.lastKey, r.order = "asc", 0)

\* queryPage's test after a query: the walk ran out before the asked page.
ranOut(res, i, pageIndex, pageSize) ==
  (~Truthy(res.LastEvaluatedKey) \/ res.Count < pageSize) /\ i < pageIndex

\* A count that begins where the page ended.
countQueryFromPage(table, r) ==
  Query(table, r.photoId, 0, IF r.countKey = Undefined THEN r.lastKey ELSE r.countKey,
        TRUE, ScanCap)

\* One iteration of countAll's loop: a COUNT query from the last key.
countQuery(table, r) ==
  Query(table, r.photoId, 0, r.countKey, TRUE, ScanCap)

\* A count that stops after its first query.
countStops(res) == FALSE

\* countAll's loop goes on while the store returns a key.
countGoesOn(res) == Truthy(res.LastEvaluatedKey)

\* Math.floor(totalElements / size).
totalPagesFloor(totalElements, size) == totalElements \div size

\* Math.ceil(totalElements / size), 0 for no element.
totalPagesCount(totalElements, size) ==
  IF totalElements = 0 THEN 0 ELSE (totalElements + size - 1) \div size

\* mapItemsToComments: the five attributes of each item.
mapItemsToComments(items) ==
  [k \in 1..Len(items) |->
     [photoId |-> items[k].photoId, commentId |-> items[k].commentId,
      createdAt |-> items[k].createdAt, authorName |-> items[k].authorName,
      content |-> items[k].content]]

NoPage == [elements |-> <<>>, cursor |-> Undefined, hasNext |-> FALSE,
           totalElements |-> 0, totalPagesCount |-> 0, pageIndex |-> 0]

ListIdle ==
  [pc |-> "idle", mode |-> "B", photoId |-> <<>>, limit |-> 0, order |-> "desc",
   cursor |-> Undefined, startKey |-> Undefined, pageIndex |-> 0, i |-> 0,
   lastKey |-> Undefined, pageItems |-> <<>>, countKey |-> Undefined, total |-> 0,
   dirty |-> FALSE, store |-> "none", asked |-> 0, counted |-> 0, resp |-> NoResp]

NoTraversal ==
  [active |-> FALSE, photoId |-> Undefined, limit |-> Undefined, order |-> Undefined, pages |-> <<>>,
   next |-> Undefined, ended |-> FALSE, dirty |-> FALSE, stored |-> {}]

\* The client sends one list request, or walks one cursor traversal.
ListFree == lreq.pc = "idle"

\* What the store answered to a call: "ok", or the error it threw.
StoreAnswer(storeFails, ok, refusal) ==
  IF storeFails THEN "unavailable" ELSE IF ok THEN "ok" ELSE refusal

\* Ghost counters: one more page (or walk) query sent, one more count query
\* sent.
AskedOne(r) == [r EXCEPT !.asked = lreq.asked + 1]
CountedOne(r) == [r EXCEPT !.counted = lreq.counted + 1]

\* A catch that leaves the failed query to be sent again.
ListRetried(answer) == [lreq EXCEPT !.store = answer]

\* The handler's catch: any throw is answered 500.
ListFailed(answer) ==
  [lreq EXCEPT !.pc = "done", !.store = answer,
     !.resp = failure(500, "internal_service_error", "An unexpected error occurred")]

\* The list request is answered 400 before any query.
ListRejected(mode, ev) ==
  [ListIdle EXCEPT !.pc = "done", !.mode = mode, !.cursor = ev.cursor,
     !.resp = failure(400, "validation_failed", "Invalid or missing input")]

\* A request whose cursor is never used as the start key.
ListBParsedNoKey(ev, req) ==
  IF ~req.ok THEN ListRejected("B", ev)
  ELSE [ListIdle EXCEPT !.pc = "page", !.mode = "B", !.photoId = req.photoId,
          !.limit = req.limit, !.order = req.order, !.cursor = ev.cursor,
          !.startKey = Undefined]

\* Cursor mode, handler lines 125-138: the request is parsed.
ListBParsed(ev, req) ==
  IF ~req.ok THEN ListRejected("B", ev)
  ELSE [ListIdle EXCEPT !.pc = "page", !.mode = "B", !.photoId = req.photoId,
          !.limit = req.limit, !.order = req.order, !.cursor = ev.cursor,
          !.startKey = req.exclusiveStartKey]

ListBAccepted(ev) == ListBParsed(ev, parseAndValidateRequestB(ev))

\* A client starts a cursor traversal: a request without cursor.
ListBFirst(ev) ==
  /\ ListFree
  /\ ev.cursor = Undefined
  /\ lreq' = ListBAccepted(ev)
  /\ trav' = IF lreq'.pc = "page"
             THEN [NoTraversal EXCEPT !.active = TRUE, !.photoId = ev.photoId,
                                     !.limit = ev.limit, !.order = ev.order,
                                     !.stored = Partition(comments, ev.photoId.v)]
             ELSE NoTraversal
  /\ UNCHANGED <<comments, subs, topic, useRecaptcha, cinv, sinv, codec, vinv, kinv, uinv, einv, ninv, dinv, emails>>

\* The client feeds the last returned cursor into the next request, same
\* photo, limit and order (after a 500 it asks the same page again).
ListBFollow(ev) ==
  /\ lreq.pc = "done"
  /\ trav.active /\ ~trav.ended
  /\ ev.photoId = trav.photoId /\ ev.cursor = trav.next
  /\ ev.limit = trav.limit /\ ev.order = trav.order
  /\ lreq' = ListBAccepted(ev)
  /\ UNCHANGED <<comments, subs, topic, useRecaptcha, trav, cinv, sinv, codec, vinv, kinv, uinv, einv, ninv, dinv, emails>>

\* A request with a cursor that no response of this traversal returned.
ListBForeign(ev) ==
  /\ ListFree
  /\ ev.cursor # Undefined
  /\ lreq' = ListBAccepted(ev)
  /\ trav' = NoTraversal
  /\ UNCHANGED <<comments, subs, topic, useRecaptcha, cinv, sinv, codec, vinv, kinv, uinv, einv, ninv, dinv, emails>>

\* Cursor mode, handler lines 140-154: the page fetch.
ListBPage(storeFails) ==
  /\ lreq.pc = "page"
  /\ \E res \in {pageQuery(comments, lreq)} :
     lreq' = AskedOne(
             IF storeFails \/ ~res.ok
             THEN ListFailed(StoreAnswer(storeFails, res.ok, "validation_exception"))
             ELSE [lreq EXCEPT !.pc = "count", !.pageItems = res.Items,
                     !.lastKey = res.LastEvaluatedKey, !.countKey = Undefined, !.total = 0])
  /\ UNCHANGED <<comments, subs, topic, useRecaptcha, trav, cinv, sinv, codec, vinv, kinv, uinv, einv, ninv, dinv, emails>>

\* Page-index mode, handler lines 473-482: the request is parsed and
\* queryPage starts.
ListAStart(ev) ==
  /\ ListFree
  /\ \E req \in {parseAndValidateRequestA(ev)} :
     lreq' = IF ~req.ok THEN ListRejected("A", ev)
             ELSE [ListIdle EXCEPT !.pc = "walk", !.mode = "A", !.photoId = req.photoId,
                     !.limit = req.pageSize, !.order = req.order,
                     !.pageIndex = req.pageIndex, !.i = 1]
  /\ trav' = NoTraversal
  /\ UNCHANGED <<comments, subs, topic, useRecaptcha, cinv, sinv, codec, vinv, kinv, uinv, einv, ninv, dinv, emails>>

\* A client pages through a photo by page index: the request of page 1.
ListAFirstPage(ev) ==
  /\ ListFree
  /\ parsePageIndex(ev.pageIndex) = 1
  /\ \E req \in {parseAndValidateRequestA(ev)} :
     /\ req.ok
     /\ lreq' = [ListIdle EXCEPT !.pc = "walk", !.mode = "A", !.photoId = req.photoId,
                   !.limit = req.pageSize, !.order = req.order,
                   !.pageIndex = req.pageIndex, !.i = 1]
  /\ trav' = [NoTraversal EXCEPT !.active = TRUE, !.photoId = ev.photoId,
                                  !.limit = ev.pageSize, !.order = ev.order]
  /\ UNCHANGED <<comments, subs, topic, useRecaptcha, cinv, sinv, codec, vinv, kinv, uinv, einv, ninv, dinv, emails>>

\* The client asks the page after the ones it has, same photo, page size
\* and order: a new invocation, which walks again from the start.
ListANextPage(ev) ==
  /\ lreq.pc = "done" /\ lreq.mode = "A" /\ lreq.resp.statusCode = 200
  /\ trav.active
  /\ ev.photoId = trav.photoId /\ ev.pageSize = trav.limit /\ ev.order = trav.order
  /\ ev.pageIndex = JsStr(NatToText(Len(trav.pages) + 1))
  /\ \E req \in {parseAndValidateRequestA(ev)} :
     lreq' = [ListIdle EXCEPT !.pc = "walk", !.mode = "A", !.photoId = req.photoId,
                !.limit = req.pageSize, !.order = req.order,
                !.pageIndex = req.pageIndex, !.i = 1]
  /\ UNCHANGED <<comments, subs, topic, useRecaptcha, trav, cinv, sinv, codec, vinv, kinv, uinv, einv, ninv, dinv, emails>>

\* queryPage, lines 417-438: one iteration of the loop.
ListAWalk(storeFails) ==
  /\ lreq.pc = "walk"
  /\ \E res \in {walkQuery(comments, lreq)} :
     lreq' = AskedOne(
       IF storeFails \/ ~res.ok
       THEN ListFailed(StoreAnswer(storeFails, res.ok, "validation_exception"))
       ELSE IF ranOut(res, lreq.i, lreq.pageIndex, lreq.limit)
       THEN [lreq EXCEPT !.pc = "count", !.pageItems = <<>>, !.lastKey = Undefined,
               !.countKey = Undefined, !.total = 0]
       ELSE IF lreq.i < lreq.pageIndex
       THEN [lreq EXCEPT !.i = @ + 1, !.pageItems = res.Items,
               !.lastKey = res.LastEvaluatedKey]
       ELSE [lreq EXCEPT !.pc = "count", !.pageItems = res.Items,
               !.lastKey = res.LastEvaluatedKey, !.countKey = Undefined, !.total = 0])
  /\ UNCHANGED <<comments, subs, topic, useRecaptcha, trav, cinv, sinv, codec, vinv, kinv, uinv, einv, ninv, dinv, emails>>

\* A 200 answer that always announces a next page.
ListPayloadAlwaysNext(r, total) ==
  [elements |-> mapItemsToComments(r.pageItems),
   cursor |-> IF r.mode = "B" THEN encodeCursor(r.lastKey) ELSE Undefined,
   hasNext |-> TRUE,
   totalElements |-> total,
   totalPagesCount |-> totalPagesCount(total, r.limit),
   pageIndex |-> r.pageIndex]

\* The body of the 200 answer, once countAll has returned total.
ListPayload(r, total) ==
  [elements |-> mapItemsToComments(r.pageItems),
   cursor |-> IF r.mode = "B" THEN encodeCursor(r.lastKey) ELSE Undefined,
   hasNext |-> Truthy(r.lastKey),
   totalElements |-> total,
   totalPagesCount |-> totalPagesCount(total, r.limit),
   pageIndex |-> r.pageIndex]

\* countAll, one iteration of its loop; after the last one the handler
\* builds the 200 answer (both modes).
ListCount(storeFails) ==
  /\ lreq.pc = "count"
  /\ \E res \in {countQuery(comments, lreq)} :
     LET total == lreq.total + res.Count IN
     /\ lreq' = CountedOne(
          IF storeFails \/ ~res.ok
          THEN ListFailed(StoreAnswer(storeFails, res.ok, "validation_exception"))
          ELSE IF countGoesOn(res)
          THEN [lreq EXCEPT !.total = total, !.countKey = res.LastEvaluatedKey]
          ELSE [lreq EXCEPT !.pc = "done", !.total = total, !.countKey = Undefined,
                  !.store = "ok", !.resp = success(200, ListPayload(lreq, total))])
     /\ trav' =
          IF lreq'.pc = "done" /\ lreq'.resp.statusCode = 200 /\ trav.active
          THEN [trav EXCEPT !.pages = Append(@, lreq'.resp.body.elements),
                  !.next = lreq'.resp.body.cursor,
                  !.ended = ~lreq'.resp.body.hasNext]
          ELSE trav
  /\ UNCHANGED <<comments, subs, topic, useRecaptcha, cinv, sinv, codec, vinv, kinv, uinv, einv, ninv, dinv, emails>>

(***************************************************************************)
(* Comment creation                                                        *)
(***************************************************************************)
\* CONTENT_MAX_LENGTH default.
ContentMaxLength == 2000

AttrAuthorName == T(<<"a", "u", "t", "h", "o", "r", "N", "a", "m", "e">>)
AttrContent == T(<<"c", "o", "n", "t", "e", "n", "t">>)
AttrToken == T(<<"r", "e", "c", "a", "p", "t", "c", "h", "a", "T", "o", "k", "e", "n">>)
AttrEmail == T(<<"e", "m", "a", "i", "l">>)

\* AUTHOR_NAME_REGEX default: /^[a-zA-Z0-9' -]+$/
AuthorNameChar(c) ==
  \/ (c >= 97 /\ c <= 122) \/ (c >= 65 /\ c <= 90) \/ IsDigit(c)
  \/ c \in {39, 32, 45}

\* The validators return the trimmed text, or null (ok = FALSE); the caller
\* also treats the empty text as null.
validateAuthorName(value) ==
  IF value.t # "str" THEN [ok |-> FALSE, val |-> <<>>]
  ELSE LET trimmed == Trim(value.v) IN
       IF trimmed = <<>> \/ \E k \in 1..Len(trimmed) : ~AuthorNameChar(trimmed[k])
       THEN [ok |-> FALSE, val |-> <<>>]
       ELSE [ok |-> TRUE, val |-> trimmed]

validateContent(value) ==
  IF value.t # "str" THEN [ok |-> FALSE, val |-> <<>>]
  ELSE LET trimmed == Trim(value.v) IN
       IF Len(trimmed) > ContentMaxLength \/ trimmed = <<>>
       THEN [ok |-> FALSE, val |-> <<>>]
       ELSE [ok |-> TRUE, val |-> trimmed]

\* parseAndValidateRequest of comment creation: kind "ok", "null" (the
\* handler answers 400) or "throws" (a property read on a body that parsed to
\* null, outside the try).
validateBodyC(ev, parsed) ==
  LET bad == [kind |-> "null"]
  IN IF ~Truthy(ev.photoId) THEN bad
     ELSE IF ~Truthy(ev.body) THEN bad
     ELSE IF ~parsed.ok THEN bad
     ELSE IF parsed.val.t = "null" THEN [kind |-> "throws"]
     ELSE LET authorName == validateAuthorName(GetProp(parsed.val, AttrAuthorName))
              content == validateContent(GetProp(parsed.val, AttrContent))
          IN IF ~authorName.ok \/ ~content.ok THEN bad
             ELSE [kind |-> "ok", photoId |-> ev.photoId.v, authorName |-> authorName.val,
                   content |-> content.val,
                   recaptchaToken |-> GetProp(parsed.val, AttrToken)]

parseAndValidateRequestC(ev) == validateBodyC(ev, JsonParse(ev.body.v))

NoComment ==
  [photoId |-> <<>>, sk |-> <<>>, commentId |-> <<>>, createdAt |-> <<>>,
   authorName |-> <<>>, content |-> <<>>]

CreateIdle ==
  [pc |-> "idle", raw |-> Undefined, req |-> NoComment, comment |-> NoComment,
   validator |-> "none",
   store |-> "none", published |-> "none", resp |-> NoResp]

\* The invocation with the body of its event.
Received(inv, i, body) == [inv EXCEPT ![i] = [@ EXCEPT !.raw = body]]

\* An invocation that calls the validator lambda before it validates the
\* request.
WithValidatorFirst(inv, i, asked, captcha) ==
  [inv EXCEPT ![i] = [@ EXCEPT !.validator = captcha]]

\* The invocation with what its call of the validator lambda gave ("none":
\* the validator was not invoked).
WithValidator(inv, i, asked, captcha) ==
  [inv EXCEPT ![i] = [@ EXCEPT !.validator = IF asked THEN captcha ELSE "none"]]

\* The item putComment writes, lines 163-184.
NewComment(req, createdAt, ulid) ==
  LET commentId == T(<<"c", "_">>) \o ulid IN
  [photoId |-> req.photoId, sk |-> createdAt \o <<35>> \o commentId,
   commentId |-> commentId, createdAt |-> createdAt,
   authorName |-> req.authorName, content |-> req.content]

\* A put without ConditionExpression.
PutUnconditional(table, item) == TRUE

\* ConditionExpression attribute_not_exists(photoId) AND
\* attribute_not_exists(#sk): no item has the primary key of the new one.
PutCondition(table, item) ==
  ~\E x \in table : x.photoId = item.photoId /\ x.sk = item.sk

\* A put that replaces the whole partition of the item.
PutItemOverPartition(table, item) ==
  {x \in table : x.photoId # item.photoId} \cup {item}

\* PutItem replaces the item of the same primary key.
PutItem(table, item) ==
  {x \in table : ~(x.photoId = item.photoId /\ x.sk = item.sk)} \cup {item}

InFlight == Cardinality({i \in 1..NumCreators : cinv[i].pc \in {"put", "publish"}})

\* handler lines 240-280: parse and validate, then the CAPTCHA gate (captcha
\* is what validateRecaptcha does: returns true, returns false, or throws).
CreateStart(i, ev, captcha) ==
  /\ cinv[i].pc = "idle"
  /\ Cardinality(comments) + InFlight < MaxComments
  /\ \E req \in {parseAndValidateRequestC(ev)} :
     LET done(answer) == [Received(cinv, i, ev.body) EXCEPT
                            ![i] = [@ EXCEPT !.pc = "done", !.resp = answer]]
         asked == req.kind = "ok" /\ useRecaptcha /\ Truthy(req.recaptchaToken)
     IN cinv' = WithValidator(
          IF req.kind = "throws"
          THEN done(failure(500, "internal_service_error", "An unexpected error occurred"))
          ELSE IF req.kind = "null"
          THEN done(failure(400, "validation_failed", "Invalid or missing input"))
          ELSE IF useRecaptcha /\ ~Truthy(req.recaptchaToken)
          THEN done(failure(400, "missing_recaptcha_token", "Missing reCAPTCHA token"))
          ELSE IF useRecaptcha /\ captcha = "throws"
          THEN done(failure(500, "internal_service_error", "An unexpected error occurred"))
          ELSE IF useRecaptcha /\ captcha = "not_human"
          THEN done(failure(403, "captcha_failed", "Failed reCAPTCHA validation"))
          ELSE [Received(cinv, i, ev.body) EXCEPT ![i] = [@ EXCEPT !.pc = "put",
                  !.req = [NoComment EXCEPT !.photoId = req.photoId,
                             !.authorName = req.authorName, !.content = req.content]]],
          i, asked, captcha)
  /\ UNCHANGED <<comments, subs, topic, useRecaptcha, lreq, trav, sinv, codec, vinv, kinv, uinv, einv, ninv, dinv, emails>>

\* putComment, lines 162-205: the conditional write; a failed condition or
\* a failed store call is thrown to the handler's catch (500).
CreatePut(i, createdAt, ulid, storeFails) ==
  /\ cinv[i].pc = "put"
  /\ LET item == NewComment(cinv[i].req, createdAt, ulid)
         written == ~storeFails /\ PutCondition(comments, item)
     IN
     /\ comments' = IF written THEN PutItem(comments, item) ELSE comments
     /\ cinv' = [cinv EXCEPT ![i] =
          IF written THEN [@ EXCEPT !.pc = "publish", !.comment = item, !.store = "ok"]
          ELSE [@ EXCEPT !.pc = "done", !.comment = item,
                  !.store = StoreAnswer(storeFails, FALSE, "conditional_check_failed"),
                  !.resp = failure(500, "internal_service_error",
                                   "An unexpected error occurred")]]
     /\ lreq' = IF written /\ lreq.pc # "idle" /\ lreq.photoId = item.photoId
                THEN [lreq EXCEPT !.dirty = TRUE] ELSE lreq
     /\ trav' = IF written /\ trav.active /\ trav.photoId = JsStr(item.photoId)
                THEN [trav EXCEPT !.dirty = TRUE] ELSE trav
  /\ UNCHANGED <<subs, topic, useRecaptcha, sinv, codec, vinv, kinv, uinv, einv, ninv, dinv, emails>>

\* An event that names the photo only.
CommentEventNoId(comment) ==
  [type |-> "comment-created", photoId |-> comment.photoId, commentId |-> <<>>]

\* The event publishSnsEvent sends.
CommentEvent(comment) ==
  [type |-> "comment-created", photoId |-> comment.photoId, commentId |-> comment.commentId]

\* A publish without the try/catch: a failed send is thrown to the caller.
publishSnsEventThrowing(messages, e, publishFails) ==
  [topic |-> IF publishFails THEN messages ELSE messages \cup {e}, threw |-> publishFails]

\* publishSnsEvent, lines 208-228: the messages of the topic afterwards and
\* whether the call throws; a failed send is caught and logged.
publishSnsEvent(messages, e, publishFails) ==
  [topic |-> IF publishFails THEN messages ELSE messages \cup {e}, threw |-> FALSE]

\* handler lines 282-302: the 201 answer is built from the stored comment,
\* the event is published, the answer is returned; a throw reaches the
\* handler's catch.
CreatePublish(i, publishFails) ==
  /\ cinv[i].pc = "publish"
  /\ LET sent == publishSnsEvent(topic, CommentEvent(cinv[i].comment), publishFails)
         c == cinv[i].comment
     IN
     /\ topic' = sent.topic
     /\ cinv' = [cinv EXCEPT ![i] = [@ EXCEPT !.pc = "done",
                   !.published = IF publishFails THEN "failed" ELSE "sent",
                   !.resp = IF sent.threw
                            THEN failure(500, "internal_service_error",
                                         "An unexpected error occurred")
                            ELSE success(201, [photoId |-> c.photoId,
                                               commentId |-> c.commentId,
                                               createdAt |-> c.createdAt,
                                               authorName |-> c.authorName,
                                               content |-> c.content])]]
  /\ UNCHANGED <<comments, subs, useRecaptcha, lreq, trav, sinv, codec, vinv, kinv, uinv, einv, ninv, dinv, emails>>

(***************************************************************************)
(* Subscriptions: the table has partition key photoId and sort key email,  *)
(* and a row holds nothing else                                            *)
(***************************************************************************)
\* The test of /^[^\s@]+@[^\s@]+\.[^\s@]+$/ : no white space, exactly one
\* "@" with text before it, and after it a "." with text on both sides.
EmailRegexTest(s) ==
  /\ \A k \in 1..Len(s) : ~IsSpace(s[k])
  /\ Cardinality({k \in 1..Len(s) : s[k] = 64}) = 1
  /\ LET at == CHOOSE k \in 1..Len(s) : s[k] = 64 IN
       /\ at > 1
       /\ \E k \in (at + 2)..(Len(s) - 1) : s[k] = 46

\* validateEmail: the trimmed, lower-cased text, or null (ok = FALSE).
validateEmail(value) ==
  IF value.t # "str" THEN [ok |-> FALSE, val |-> <<>>]
  ELSE LET trimmed == ToLowerCase(Trim(value.v)) IN
       IF EmailRegexTest(trimmed) THEN [ok |-> TRUE, val |-> trimmed]
       ELSE [ok |-> FALSE, val |-> <<>>]

\* parseAndValidateRequest of subscription creation.
validateBodyS(ev, parsed) ==
  LET bad == [kind |-> "null"]
  IN IF ~Truthy(ev.photoId) THEN bad
     ELSE IF ~Truthy(ev.body) THEN bad
     ELSE IF ~parsed.ok THEN bad
     ELSE IF parsed.val.t = "null" THEN [kind |-> "throws"]
     ELSE LET email == validateEmail(GetProp(parsed.val, AttrEmail)) IN
          IF ~email.ok THEN bad
          ELSE [kind |-> "ok", photoId |-> ev.photoId.v, email |-> email.val,
                recaptchaToken |-> GetProp(parsed.val, AttrToken)]

parseAndValidateRequestS(ev) == validateBodyS(ev, JsonParse(ev.body.v))

\* decodeURIComponent: %XX escapes become bytes and the bytes are read as
\* UTF-8; a "%" without two hex digits or bytes that are not UTF-8 throw.
RECURSIVE UnescapeBytes(_, _, _)
UnescapeBytes(s, i, acc) ==
  IF i > Len(s) THEN [ok |-> TRUE, val |-> acc]
  ELSE IF s[i] # 37 THEN UnescapeBytes(s, i + 1, acc \o Utf8EncodeChar(s[i]))
  ELSE IF i + 2 <= Len(s) /\ IsHex(s[i + 1]) /\ IsHex(s[i + 2])
       THEN UnescapeBytes(s, i + 3, Append(acc, HexVal(s[i + 1]) * 16 + HexVal(s[i + 2])))
       ELSE [ok |-> FALSE, val |-> <<>>]

Utf8OrThrow(b) ==
  IF b.ok /\ Utf8Encode(Utf8Decode(b.val)) = b.val
  THEN [ok |-> TRUE, val |-> Utf8Decode(b.val)]
  ELSE [ok |-> FALSE, val |-> <<>>]

decodeURIComponent(s) == Utf8OrThrow(UnescapeBytes(s, 1, <<>>))

\* parseAndValidateRequest of subscription deletion.
normalizeEmailD(ev, decodedEmail) ==
  LET bad == [kind |-> "null"]
  IN IF ~Truthy(ev.photoId) THEN bad
     ELSE IF ~Truthy(ev.email) THEN bad
     ELSE IF ~decodedEmail.ok THEN bad
     ELSE LET email == ToLowerCase(Trim(decodedEmail.val)) IN
          IF email = <<>> THEN bad
          ELSE [kind |-> "ok", photoId |-> ev.photoId.v, email |-> email]

parseAndValidateRequestD(ev) == normalizeEmailD(ev, decodeURIComponent(ev.email.v))

SubIdle ==
  [pc |-> "idle", kind |-> "none", raw |-> Undefined, photoId |-> <<>>, email |-> <<>>,
   validator |-> "none", store |-> "none", resp |-> NoResp]

Row(photoId, email) == [photoId |-> photoId, email |-> email]

SubDone(i, kind, resp) ==
  [sinv EXCEPT ![i] = [@ EXCEPT !.pc = "done", !.kind = kind, !.resp = resp]]

SubAnswered(i, answer, resp) ==
  [sinv EXCEPT ![i] = [@ EXCEPT !.pc = "done", !.store = answer, !.resp = resp]]

\* subscription-create handler lines 104-171: parse and validate, then the
\* CAPTCHA gate (captcha is the outcome of the shared validateRecaptcha:
\* human, statusCode 400 with reason expired or invalid, another result, or
\* a throw).
SubCreateStart(i, ev, captcha) ==
  /\ sinv[i].pc = "idle"
  /\ \E req \in {parseAndValidateRequestS(ev)} :
     LET internal == failure(500, "internal_service_error", "An unexpected error occurred")
         asked == req.kind = "ok" /\ useRecaptcha /\ Truthy(req.recaptchaToken)
     IN sinv' = WithValidator(Received(
          IF req.kind = "throws" THEN SubDone(i, "create", internal)
          ELSE IF req.kind = "null"
          THEN SubDone(i, "create", failure(400, "validation_failed", "Invalid or missing input"))
          ELSE IF useRecaptcha /\ ~Truthy(req.recaptchaToken)
          THEN SubDone(i, "create",
                       failure(400, "missing_recaptcha_token", "Missing reCAPTCHA token"))
          ELSE IF useRecaptcha /\ captcha = "throws" THEN SubDone(i, "create", internal)
          ELSE IF useRecaptcha /\ captcha \in {"expired", "invalid"}
          THEN SubDone(i, "create",
                       failure(403, "captcha_failed",
                               IF captcha = "expired"
                               THEN "Captcha expired, please try again."
                               ELSE "Invalid captcha, please try again."))
          ELSE IF useRecaptcha /\ captcha = "unavailable"
          THEN SubDone(i, "create",
                       failure(503, "captcha_unavailable",
                               "Captcha verification service is temporarily unavailable. Please try again."))
          ELSE [sinv EXCEPT ![i] = [@ EXCEPT !.pc = "put", !.kind = "create",
                                      !.photoId = req.photoId, !.email = req.email]],
          i, ev.body), i, asked, captcha)
  /\ UNCHANGED <<comments, subs, topic, useRecaptcha, lreq, trav, cinv, codec, vinv, kinv, uinv, einv, ninv, dinv, emails>>

\* A put without ConditionExpression.
SubPutUnconditional(table, row) == TRUE

\* ConditionExpression attribute_not_exists(photoId) AND
\* attribute_not_exists(email): no row has the primary key of the new one.
SubPutCondition(table, row) ==
  ~\E x \in table : x.photoId = row.photoId /\ x.email = row.email

\* putSubscription, lines 71-93, and the rest of the handler: 201 when the
\* conditional write took effect, 500 from the catch otherwise.
SubCreatePut(i, storeFails) ==
  /\ sinv[i].pc = "put"
  /\ LET row == Row(sinv[i].photoId, ToLowerCase(sinv[i].email))
         written == ~storeFails /\ SubPutCondition(subs, row)
     IN
     /\ subs' = IF written THEN subs \cup {row} ELSE subs
     /\ sinv' = SubAnswered(i,
                  StoreAnswer(storeFails, written, "conditional_check_failed"),
                  IF written THEN success(201, [empty |-> TRUE])
                  ELSE failure(500, "internal_service_error", "An unexpected error occurred"))
  /\ UNCHANGED <<comments, topic, useRecaptcha, lreq, trav, cinv, codec, vinv, kinv, uinv, einv, ninv, dinv, emails>>

\* subscription-delete handler up to the store call.
SubDeleteStart(i, ev) ==
  /\ sinv[i].pc = "idle"
  /\ \E req \in {parseAndValidateRequestD(ev)} :
     sinv' =
       IF req.kind = "null"
       THEN SubDone(i, "delete", failure(400, "validation_failed", "Invalid or missing input"))
       ELSE [sinv EXCEPT ![i] = [@ EXCEPT !.pc = "delete", !.kind = "delete",
                                   !.raw = ev.email, !.photoId = req.photoId, !.email = req.email]]
  /\ UNCHANGED <<comments, subs, topic, useRecaptcha, lreq, trav, cinv, codec, vinv, kinv, uinv, einv, ninv, dinv, emails>>

\* DeleteItem without ReturnValues: no Attributes.
DeleteAttributesNone(table, row) == Undefined

\* DeleteItem with ReturnValues ALL_OLD: the row removed, or undefined.
DeleteAttributes(table, row) == IF row \in table THEN JsObj(<<>>) ELSE Undefined

\* deleteSubscription, lines 63-75, and the rest of the handler.
SubDelete(i, storeFails) ==
  /\ sinv[i].pc = "delete"
  /\ LET row == Row(sinv[i].photoId, sinv[i].email)
         existed == Truthy(DeleteAttributes(subs, row))
     IN
     /\ subs' = IF storeFails THEN subs ELSE subs \ {row}
     /\ sinv' = SubAnswered(i, StoreAnswer(storeFails, TRUE, "none"),
                  IF storeFails
                  THEN failure(500, "internal_service_error", "An unexpected error occurred")
                  ELSE success(200, [photoId |-> row.photoId, email |-> row.email,
                                     unsubscribed |-> TRUE, existed |-> existed]))
  /\ UNCHANGED <<comments, topic, useRecaptcha, lreq, trav, cinv, codec, vinv, kinv, uinv, einv, ninv, dinv, emails>>

(***************************************************************************)
(* The cursor codec applied to one value                                   *)
(***************************************************************************)
CodecIdle == [pc |-> "idle", key |-> Undefined, cursor |-> Undefined, back |-> Undefined]

\* encodeCursor on a store key, or on no key.
CodecEncode(k) ==
  /\ codec.pc = "idle"
  /\ codec' = [CodecIdle EXCEPT !.pc = "encoded", !.key = k, !.cursor = encodeCursor(k)]
  /\ UNCHANGED <<comments, subs, topic, useRecaptcha, lreq, trav, cinv, sinv, vinv, kinv, uinv, einv, ninv, dinv, emails>>

\* decodeCursor on what encodeCursor returned.
CodecDecode ==
  /\ codec.pc = "encoded"
  /\ codec' = [codec EXCEPT !.pc = "decoded", !.back = decodeCursor(codec.cursor)]
  /\ UNCHANGED <<comments, subs, topic, useRecaptcha, lreq, trav, cinv, sinv, vinv, kinv, uinv, einv, ninv, dinv, emails>>

\* decodeCursor on a text a client made up.
CodecDecodeForeign(c) ==
  /\ codec.pc = "idle"
  /\ codec' = [CodecIdle EXCEPT !.pc = "decoded", !.cursor = c, !.back = decodeCursor(c)]
  /\ UNCHANGED <<comments, subs, topic, useRecaptcha, lreq, trav, cinv, sinv, vinv, kinv, uinv, einv, ninv, dinv, emails>>

(***************************************************************************)
(* The response envelope as the gateway receives it: status code, headers  *)
(* and the body as JSON text.                                              *)
(***************************************************************************)
ApplicationJson == T(<<"a", "p", "p", "l", "i", "c", "a", "t", "i", "o", "n", "/", "j", "s", "o", "n">>)
AttrErrorCode == T(<<"e", "r", "r", "o", "r", "C", "o", "d", "e">>)
AttrMessage == T(<<"m", "e", "s", "s", "a", "g", "e">>)

\* JSON.stringify(body) as a JavaScript value: undefined for undefined.
StringifyBody(body) ==
  IF body.t = "undefined" THEN Undefined ELSE JsStr(JsonStringify(body))

\* An envelope whose body is written with String(body).
webUtils_successUnserialized(statusCode, body, lambdaRequestId, apiGwRequestId) ==
  [statusCode |-> statusCode,
   headers |-> ("content-type" :> JsStr(ApplicationJson))
               @@ ("x-lambda-request-id" :> lambdaRequestId)
               @@ ("x-apigw-request-id" :> apiGwRequestId),
   body |-> IF body.t = "str" THEN body ELSE JsStr(T(<<"[", "o", "b", "j", "e", "c", "t", "]">>))]

\* success with correlation ids.
webUtils_success(statusCode, body, lambdaRequestId, apiGwRequestId) ==
  [statusCode |-> statusCode,
   headers |-> ("content-type" :> JsStr(ApplicationJson))
               @@ ("x-lambda-request-id" :> lambdaRequestId)
               @@ ("x-apigw-request-id" :> apiGwRequestId),
   body |-> StringifyBody(body)]

\* failure with correlation ids.
webUtils_failure(statusCode, errorCode, message, lambdaRequestId, apiGwRequestId) ==
  webUtils_success(statusCode,
                   JsObj(<< <<AttrErrorCode, errorCode>>, <<AttrMessage, message>> >>),
                   lambdaRequestId, apiGwRequestId)

\* success and failure of the envelope without correlation ids.
successNoIds(statusCode, body) ==
  [statusCode |-> statusCode,
   headers |-> ("content-type" :> JsStr(ApplicationJson)),
   body |-> StringifyBody(body)]

failureNoIds(statusCode, errorCode, message) ==
  successNoIds(statusCode, JsObj(<< <<AttrErrorCode, errorCode>>, <<AttrMessage, message>> >>))

EnvelopeIdle ==
  [pc |-> "idle", fn |-> "none", statusCode |-> 0, payload |-> Undefined,
   lambdaRequestId |-> Undefined, apiGwRequestId |-> Undefined,
   resp |-> [statusCode |-> 0, headers |-> <<>>, body |-> Undefined]]

\* One call of success(statusCode, body, lambdaRequestId, apiGwRequestId).
EnvelopeSuccess(statusCode, body, lambdaRequestId, apiGwRequestId) ==
  /\ einv.pc = "idle"
  /\ einv' = [EnvelopeIdle EXCEPT !.pc = "done", !.fn = "success", !.statusCode = statusCode,
                !.payload = body, !.lambdaRequestId = lambdaRequestId,
                !.apiGwRequestId = apiGwRequestId,
                !.resp = webUtils_success(statusCode, body, lambdaRequestId, apiGwRequestId)]
  /\ UNCHANGED <<comments, subs, topic, useRecaptcha, lreq, trav, cinv, sinv, codec, vinv, kinv, uinv, ninv, dinv, emails>>

\* One call of failure(statusCode, errorCode, message, lambdaRequestId,
\* apiGwRequestId).
EnvelopeFailure(statusCode, errorCode, message, lambdaRequestId, apiGwRequestId) ==
  /\ einv.pc = "idle"
  /\ einv' = [EnvelopeIdle EXCEPT !.pc = "done", !.fn = "failure", !.statusCode = statusCode,
                !.payload = JsObj(<< <<AttrErrorCode, errorCode>>, <<AttrMessage, message>> >>),
                !.lambdaRequestId = lambdaRequestId, !.apiGwRequestId = apiGwRequestId,
                !.resp = webUtils_failure(statusCode, errorCode, message,
                                          lambdaRequestId, apiGwRequestId)]
  /\ UNCHANGED <<comments, subs, topic, useRecaptcha, lreq, trav, cinv, sinv, codec, vinv, kinv, uinv, ninv, dinv, emails>>

\* One call of the envelope without correlation ids: success(statusCode,
\* body), or failure(statusCode, errorCode, message) when body is the
\* {errorCode, message} object.
EnvelopeNoIds(fn, statusCode, body) ==
  /\ einv.pc = "idle"
  /\ fn = "failure" => /\ body.t = "obj" /\ Len(body.v) = 2
                       /\ body.v[1][1] = AttrErrorCode /\ body.v[2][1] = AttrMessage
  /\ einv' = [EnvelopeIdle EXCEPT !.pc = "done", !.fn = fn \o "NoIds", !.statusCode = statusCode,
                !.payload = body,
                !.resp = IF fn = "failure"
                         THEN failureNoIds(statusCode, body.v[1][2], body.v[2][2])
                         ELSE successNoIds(statusCode, body)]
  /\ UNCHANGED <<comments, subs, topic, useRecaptcha, lreq, trav, cinv, sinv, codec, vinv, kinv, uinv, ninv, dinv, emails>>

(***************************************************************************)
(* The captcha-validator lambda                                            *)
(***************************************************************************)
AttrSuccess == T(<<"s", "u", "c", "c", "e", "s", "s">>)
AttrReason == T(<<"r", "e", "a", "s", "o", "n">>)
AttrErrorCodes == T(<<"e", "r", "r", "o", "r", "C", "o", "d", "e", "s">>)
AttrUpstreamCodes == T(<<"e", "r", "r", "o", "r", "-", "c", "o", "d", "e", "s">>)
AttrChallengeTs == T(<<"c", "h", "a", "l", "l", "e", "n", "g", "e", "_", "t", "s">>)
AttrHostname == T(<<"h", "o", "s", "t", "n", "a", "m", "e">>)
AttrStatusCode == T(<<"s", "t", "a", "t", "u", "s", "C", "o", "d", "e">>)
AttrBody == T(<<"b", "o", "d", "y">>)

\* x?.[name]: undefined for null and undefined, and for values without
\* the property.
GetOptional(x, name) == IF x.t = "obj" THEN GetProp(x, name) ELSE Undefined

\* apiFail: errorCodes is written only when it has elements.
apiFail(reason, errorCodes) ==
  JsObj(<< <<AttrSuccess, JsBool(FALSE)>>, <<AttrReason, JsStr(reason)>> >>
        \o (IF errorCodes.t = "arr" /\ Len(errorCodes.v) > 0
            THEN << <<AttrErrorCodes, errorCodes>> >> ELSE <<>>))

\* resp: the proxy answer, its body as JSON text.
resp(statusCode, body) == [statusCode |-> statusCode, body |-> JsStr(JsonStringify(body))]

\* The set classifyReason builds: String(c) of every element.
CodeSet(errorCodes) ==
  {IF errorCodes.v[k].t = "str" THEN errorCodes.v[k].v ELSE JsonStringify(errorCodes.v[k]) :
     k \in 1..Len(errorCodes.v)}

\* classifyReason on the set of codes.
classifyReason(codes) ==
  IF T(<<"t", "i", "m", "e", "o", "u", "t", "-", "o", "r", "-", "d", "u", "p", "l", "i", "c", "a", "t", "e">>) \in codes THEN T(<<"e", "x", "p", "i", "r", "e", "d">>)
  ELSE IF T(<<"i", "n", "v", "a", "l", "i", "d", "-", "i", "n", "p", "u", "t", "-", "r", "e", "s", "p", "o", "n", "s", "e">>) \in codes \/ T(<<"m", "i", "s", "s", "i", "n", "g", "-", "i", "n", "p", "u", "t", "-", "r", "e", "s", "p", "o", "n", "s", "e">>) \in codes
  THEN T(<<"i", "n", "v", "a", "l", "i", "d">>)
  ELSE IF T(<<"b", "a", "d", "-", "r", "e", "q", "u", "e", "s", "t">>) \in codes THEN T(<<"b", "a", "d", "-", "r", "e", "q", "u", "e", "s", "t">>)
  ELSE IF T(<<"m", "i", "s", "s", "i", "n", "g", "-", "i", "n", "p", "u", "t", "-", "s", "e", "c", "r", "e", "t">>) \in codes \/ T(<<"i", "n", "v", "a", "l", "i", "d", "-", "i", "n", "p", "u", "t", "-", "s", "e", "c", "r", "e", "t">>) \in codes
  THEN T(<<"s", "e", "r", "v", "e", "r", "-", "e", "r", "r", "o", "r">>)
  ELSE T(<<"s", "e", "r", "v", "e", "r", "-", "e", "r", "r", "o", "r">>)

ClientReasons == {T(<<"e", "x", "p", "i", "r", "e", "d">>), T(<<"i", "n", "v", "a", "l", "i", "d">>), T(<<"d", "u", "p", "l", "i", "c", "a", "t", "e">>), T(<<"b", "a", "d", "-", "r", "e", "q", "u", "e", "s", "t">>)}

\* The handler's catch: what it answers to a throw of the given kind.
validatorCaught(kind, code) ==
  IF kind = "timeout" THEN resp(504, apiFail(T(<<"n", "e", "t", "w", "o", "r", "k", "-", "e", "r", "r", "o", "r">>), JsArr(<<JsStr(T(<<"t", "i", "m", "e", "o", "u", "t">>))>>)))
  ELSE IF kind = "network"
  THEN resp(502, apiFail(T(<<"n", "e", "t", "w", "o", "r", "k", "-", "e", "r", "r", "o", "r">>),
                         JsArr(<<IF Truthy(code) THEN code ELSE JsStr(T(<<"a", "x", "i", "o", "s", "-", "e", "r", "r", "o", "r">>))>>)))
  ELSE resp(500, apiFail(T(<<"s", "e", "r", "v", "e", "r", "-", "e", "r", "r", "o", "r">>), Undefined))

\* Lines 62-111: the answer to an upstream response carrying data.
validatorClassified(rawData) ==
  LET data == IF rawData.t \in {"undefined", "null"} THEN JsObj(<<>>) ELSE rawData
      given == GetOptional(data, AttrUpstreamCodes)
      errorCodes == IF given.t \in {"undefined", "null"} THEN JsArr(<<>>) ELSE given
  IN IF Truthy(GetOptional(data, AttrSuccess))
     THEN resp(200, JsObj(<< <<AttrSuccess, JsBool(TRUE)>>,
                             <<T(<<"c", "h", "a", "l", "l", "e", "n", "g", "e", "T", "s">>), GetOptional(data, AttrChallengeTs)>>,
                             <<AttrHostname, GetOptional(data, AttrHostname)>> >>))
     ELSE IF errorCodes.t # "arr"
     THEN validatorCaught("throws", Undefined)
     ELSE LET reason == classifyReason(CodeSet(errorCodes))
          IN IF reason \in ClientReasons THEN resp(400, apiFail(reason, errorCodes))
             ELSE resp(502, apiFail(reason, errorCodes))

\* Lines 27-31: the body parsed and its token; ok = FALSE when JSON.parse
\* throws.
validatorRequest(body) ==
  LET parsed == JsonParse(IF Truthy(body) THEN body.v ELSE T(<<"{", "}">>))
  IN [ok |-> parsed.ok, token |-> GetOptional(parsed.val, T(<<"t", "o", "k", "e", "n">>))]

\* Whether the handler gets as far as calling the verification service.
validatorCalls(req, secret) == req.ok /\ Truthy(req.token) /\ secret

\* The handler: body is event.body, secret whether RECAPTCHA_SECRET_KEY is
\* set, upstream what the call of the verification service does.
captchaValidator(req, secret, upstream) ==
  IF ~req.ok THEN resp(400, apiFail(T(<<"b", "a", "d", "-", "r", "e", "q", "u", "e", "s", "t">>), Undefined))
  ELSE IF ~Truthy(req.token)
  THEN resp(400, apiFail(T(<<"b", "a", "d", "-", "r", "e", "q", "u", "e", "s", "t">>), JsArr(<<JsStr(T(<<"m", "i", "s", "s", "i", "n", "g", "-", "i", "n", "p", "u", "t", "-", "r", "e", "s", "p", "o", "n", "s", "e">>))>>)))
  ELSE IF ~secret
  THEN resp(500, apiFail(T(<<"s", "e", "r", "v", "e", "r", "-", "e", "r", "r", "o", "r">>), JsArr(<<JsStr(T(<<"c", "o", "n", "f", "i", "g", "-", "m", "i", "s", "s", "i", "n", "g">>))>>)))
  ELSE IF upstream.kind # "response" THEN validatorCaught(upstream.kind, upstream.data)
  ELSE validatorClassified(upstream.data)

NoUpstream == [kind |-> "none", data |-> Undefined]

\* What an invocation of the lambda gives its caller, before any.
NoInvoke == [threw |-> FALSE, FunctionError |-> FALSE, Payload |-> Undefined]

ValidatorIdle ==
  [pc |-> "idle", body |-> Undefined, secret |-> FALSE, upstream |-> NoUpstream,
   resp |-> [statusCode |-> 0, body |-> Undefined], delivery |-> "none", out |-> NoInvoke]

\* One invocation of the validator; upstream is recorded when the handler
\* called the verification service.
ValidatorHandle(body, secret, upstream) ==
  /\ vinv.pc = "idle"
  /\ \E req \in {validatorRequest(body)} :
       vinv' = [ValidatorIdle EXCEPT !.pc = "done", !.body = body, !.secret = secret,
                  !.upstream = IF validatorCalls(req, secret) THEN upstream ELSE NoUpstream,
                  !.resp = captchaValidator(req, secret, upstream)]
  /\ UNCHANGED <<comments, subs, topic, useRecaptcha, lreq, trav, cinv, sinv, codec, kinv, uinv, einv, ninv, dinv, emails>>

(***************************************************************************)
(* The callers' side of the validator lambda.  An invocation result is     *)
(* [threw, FunctionError, Payload]: threw when lambdaClient.send rejects,  *)
(* Payload the answer's bytes read as text, or undefined.                  *)
(***************************************************************************)
\* The Payload of a validator answer: the proxy answer as JSON text.
InvokePayload(r) ==
  JsStr(JsonStringify(JsObj(<< <<AttrStatusCode, JsNum(r.statusCode)>>, <<AttrBody, r.body>> >>)))

\* JSON.parse(res.body) for a truthy res.body: the text is parsed, a number
\* or boolean reads as itself, an object reads "[object Object]" and throws.
ParseBodyValue(b) ==
  IF b.t = "str" THEN JsonParse(b.v)
  ELSE IF b.t \in {"num", "bool"} THEN [ok |-> TRUE, val |-> b]
  ELSE [ok |-> FALSE, val |-> Undefined]

Decision(isHuman, statusCode, reason) ==
  [isHuman |-> isHuman, statusCode |-> statusCode, reason |-> reason]

\* Lines 67-112 of the shared validateRecaptcha: the decision for an answer
\* that parsed to res.
decideRecaptcha(res) ==
  LET given == GetOptional(res, AttrStatusCode)
      statusCode == IF given.t \in {"undefined", "null"} THEN JsNum(500) ELSE given
      rawBody == GetOptional(res, AttrBody)
      parsedBody == IF Truthy(rawBody) THEN ParseBodyValue(rawBody)
                    ELSE [ok |-> TRUE, val |-> JsObj(<<>>)]
      body == IF parsedBody.ok THEN parsedBody.val ELSE JsObj(<<>>)
      bodyReason == GetOptional(body, AttrReason)
      codes == GetOptional(body, AttrErrorCodes)
      reason == IF bodyReason.t \notin {"undefined", "null"} THEN bodyReason
                ELSE IF codes.t = "arr"
                        /\ \E k \in 1..Len(codes.v) : codes.v[k] = JsStr(T(<<"t", "i", "m", "e", "o", "u", "t", "-", "o", "r", "-", "d", "u", "p", "l", "i", "c", "a", "t", "e">>))
                THEN JsStr(T(<<"e", "x", "p", "i", "r", "e", "d">>)) ELSE JsStr(T(<<"i", "n", "v", "a", "l", "i", "d">>))
  IN IF statusCode = JsNum(200) /\ GetOptional(body, AttrSuccess) = JsBool(TRUE)
     THEN Decision(TRUE, 200, <<>>)
     ELSE IF statusCode = JsNum(400)
     THEN Decision(FALSE, 400,
                   IF reason.t = "str" /\ reason.v \in ClientReasons THEN reason.v ELSE T(<<"i", "n", "v", "a", "l", "i", "d">>))
     ELSE IF statusCode \in {JsNum(502), JsNum(504)}
     THEN Decision(FALSE, statusCode.v[1], T(<<"n", "e", "t", "w", "o", "r", "k", "-", "e", "r", "r", "o", "r">>))
     ELSE Decision(FALSE, 500, T(<<"s", "e", "r", "v", "e", "r", "-", "e", "r", "r", "o", "r">>))

\* The text of the Payload parsed, for the shared validateRecaptcha.
ParsedPayload(out) == IF Truthy(out.Payload) THEN JsonParse(out.Payload.v) ELSE ParseFail

\* The shared validateRecaptcha (captcha.validator.ts), for a configured
\* function name.
validateRecaptcha(out) ==
  IF out.threw \/ out.FunctionError \/ ~Truthy(out.Payload)
  THEN Decision(FALSE, 500, T(<<"i", "n", "v", "o", "k", "e", "-", "e", "r", "r", "o", "r">>))
  ELSE LET res == ParsedPayload(out)
       IN IF ~res.ok THEN Decision(FALSE, 500, T(<<"i", "n", "v", "o", "k", "e", "-", "e", "r", "r", "o", "r">>))
          ELSE decideRecaptcha(res.val)

\* What the handlers that call the shared validateRecaptcha branch on.
captchaOutcome(d) ==
  IF d.isHuman THEN "human"
  ELSE IF d.statusCode = 400 THEN (IF d.reason = T(<<"e", "x", "p", "i", "r", "e", "d">>) THEN "expired" ELSE "invalid")
  ELSE "unavailable"

\* A validateRecaptcha that lets every caller through.
validateRecaptchaTrusting(out) == "human"

\* The validateRecaptcha of comment creation (boolean contract): "human"
\* for true, "not_human" for false, "throws" for a rejected invocation, a
\* Payload or a body that is not JSON, and a body that parsed to null.
validateRecaptchaBoolean(out) ==
  IF out.threw THEN "throws"
  ELSE IF out.FunctionError THEN "not_human"
  ELSE LET res == IF Truthy(out.Payload) THEN JsonParse(out.Payload.v)
                  ELSE [ok |-> TRUE, val |-> JsObj(<<>>)]
       IN IF ~res.ok THEN "throws"
          ELSE LET rawBody == GetOptional(res.val, AttrBody)
                   body == IF Truthy(rawBody) THEN ParseBodyValue(rawBody)
                           ELSE [ok |-> TRUE, val |-> JsObj(<<>>)]
               IN IF ~body.ok \/ body.val.t = "null" THEN "throws"
                  ELSE IF Truthy(GetOptional(body.val, AttrSuccess)) THEN "human"
                  ELSE "not_human"

\* The validateRecaptcha of the earlier contact-us handler (minimal
\* parsing): as above without the FunctionError test, and an absent Payload
\* is read as the empty text, which is not JSON.
validateRecaptchaMinimal(out) ==
  IF out.threw THEN "throws"
  ELSE LET res == IF out.Payload.t = "str" THEN JsonParse(out.Payload.v) ELSE ParseFail
       IN IF ~res.ok THEN "throws"
          ELSE LET rawBody == GetOptional(res.val, AttrBody)
                   body == IF Truthy(rawBody) THEN ParseBodyValue(rawBody)
                           ELSE [ok |-> TRUE, val |-> JsObj(<<>>)]
               IN IF ~body.ok \/ body.val.t = "null" THEN "throws"
                  ELSE IF Truthy(GetOptional(body.val, AttrSuccess)) THEN "human"
                  ELSE "not_human"

\* What lambdaClient.send gives the caller of the validator: the answer as
\* Payload ("answer"), a rejection ("threw"), a FunctionError with the
\* runtime's error document (the lambda timed out or crashed), no Payload
\* ("empty"), or a Payload that is not JSON ("garbled").
Invoked(answer, delivery) ==
  CASE delivery = "answer" -> [NoInvoke EXCEPT !.Payload = InvokePayload(answer)]
    [] delivery = "threw" -> [NoInvoke EXCEPT !.threw = TRUE]
    [] delivery = "function_error" ->
         [NoInvoke EXCEPT !.FunctionError = TRUE,
            !.Payload = JsStr(JsonStringify(JsObj(<< <<T(<<"e", "r", "r", "o", "r", "M", "e", "s", "s", "a", "g", "e">>), JsStr(T(<<"T", "a", "s", "k", " ", "t", "i", "m", "e", "d", " ", "o", "u", "t">>))>> >>)))]
    [] delivery = "empty" -> NoInvoke
    [] OTHER -> [NoInvoke EXCEPT !.Payload = JsStr(T(<<"<", "h", "t", "m", "l", ">">>))]

\* The invocation returns to the calling handler.
ValidatorDeliver(delivery) ==
  /\ vinv.pc = "done"
  /\ vinv' = [vinv EXCEPT !.pc = "delivered", !.delivery = delivery,
                !.out = Invoked(vinv.resp, delivery)]
  /\ UNCHANGED <<comments, subs, topic, useRecaptcha, lreq, trav, cinv, sinv, codec, kinv, uinv, einv, ninv, dinv, emails>>

(***************************************************************************)
(* contact-us: the handler of lambdas/contact-us and its earlier version   *)
(***************************************************************************)
AttrName == T(<<"n", "a", "m", "e">>)
AttrSurname == T(<<"s", "u", "r", "n", "a", "m", "e">>)
AttrPhone == T(<<"p", "h", "o", "n", "e">>)

\* validateBody: the message of the 400 answer, or "" for null (valid).
validateBody(body) ==
  IF ~Truthy(body) THEN "Missing body."
  ELSE IF ~Truthy(GetOptional(body, AttrName)) THEN "Missing name."
  ELSE IF ~Truthy(GetOptional(body, AttrSurname)) THEN "Missing surname."
  ELSE IF ~Truthy(GetOptional(body, AttrMessage)) THEN "Missing message."
  ELSE IF ~Truthy(GetOptional(body, AttrEmail)) /\ ~Truthy(GetOptional(body, AttrPhone))
  THEN "Please provide either email or phone number."
  ELSE ""

ContactIdle ==
  [pc |-> "idle", version |-> "none", body |-> Undefined, validator |-> "none",
   published |-> "none", resp |-> NoResp]

ContactDone(version, body, asked, captcha, answer) ==
  [ContactIdle EXCEPT !.pc = "done", !.version = version, !.body = body,
     !.validator = IF asked THEN captcha ELSE "none", !.resp = answer]

\* JSON.parse(event.body || "{}")
ContactParsed(body) == JsonParse(IF Truthy(body) THEN body.v ELSE T(<<"{", "}">>))

\* The handler up to the publish, lines 187-253: parse, validateBody, the
\* CAPTCHA gate on the shared validateRecaptcha (captcha as in subscription
\* creation).
ContactStart(body, captcha) ==
  /\ kinv.pc = "idle"
  /\ \E parsed \in {ContactParsed(body)} :
     LET asked == parsed.ok /\ validateBody(parsed.val) = "" /\ useRecaptcha
                  /\ Truthy(GetOptional(parsed.val, AttrToken))
         done(answer) == ContactDone("current", body, asked, captcha, answer)
     IN kinv' =
          IF ~parsed.ok
          THEN done(failure(500, "internal_service_error", "Failed to send message"))
          ELSE IF validateBody(parsed.val) # ""
          THEN done(failure(400, "validation_failed", validateBody(parsed.val)))
          ELSE IF useRecaptcha /\ ~asked
          THEN done(failure(400, "missing_recaptcha_token", "Missing reCAPTCHA token"))
          ELSE IF useRecaptcha /\ captcha = "throws"
          THEN done(failure(500, "internal_service_error", "Failed to send message"))
          ELSE IF useRecaptcha /\ captcha \in {"expired", "invalid"}
          THEN done(failure(403, "captcha_failed",
                            IF captcha = "expired" THEN "Captcha expired, please try again."
                            ELSE "Invalid captcha, please try again."))
          ELSE IF useRecaptcha /\ captcha = "unavailable"
          THEN done(failure(503, "captcha_unavailable",
                            "Captcha verification service is temporarily unavailable. Please try again."))
          ELSE [ContactIdle EXCEPT !.pc = "publish", !.version = "current", !.body = body,
                  !.validator = IF asked THEN captcha ELSE "none"]
  /\ UNCHANGED <<comments, subs, topic, useRecaptcha, lreq, trav, cinv, sinv, codec, vinv, uinv, einv, ninv, dinv, emails>>

\* The earlier handler up to the publish (part_001 lines 45-84): the gate
\* on the boolean validateRecaptcha.
ContactStartEarlier(body, captcha) ==
  /\ kinv.pc = "idle"
  /\ \E parsed \in {ContactParsed(body)} :
     LET asked == parsed.ok /\ validateBody(parsed.val) = "" /\ useRecaptcha
                  /\ Truthy(GetOptional(parsed.val, AttrToken))
         done(answer) == ContactDone("earlier", body, asked, captcha, answer)
     IN kinv' =
          IF ~parsed.ok
          THEN done(failure(500, "internal_service_error", "Failed to send message"))
          ELSE IF validateBody(parsed.val) # ""
          THEN done(failure(400, "validation_failed", validateBody(parsed.val)))
          ELSE IF useRecaptcha /\ ~asked
          THEN done(failure(400, "bad_captcha", "Missing reCAPTCHA token"))
          ELSE IF useRecaptcha /\ captcha = "throws"
          THEN done(failure(500, "internal_service_error", "Failed to send message"))
          ELSE IF useRecaptcha /\ captcha = "not_human"
          THEN done(failure(403, "bad_captcha", "Failed reCAPTCHA validation"))
          ELSE [ContactIdle EXCEPT !.pc = "publish", !.version = "earlier", !.body = body,
                  !.validator = IF asked THEN captcha ELSE "none"]
  /\ UNCHANGED <<comments, subs, topic, useRecaptcha, lreq, trav, cinv, sinv, codec, vinv, uinv, einv, ninv, dinv, emails>>

\* TO_EMAIL of the deployment.
ToEmail == JsStr(T(<<"o", "@", "w", ".", "e">>))

\* conf.toEmail?.split(",").map((e) => e.trim()) || []
contactTo(env) ==
  IF env.t # "str" THEN <<>>
  ELSE LET parts == Split(env.v, 44) IN [k \in 1..Len(parts) |-> Trim(parts[k])]

\* The EmailNotificationMessage of the contact form; subject, text and
\* html are built from the body.
ContactMessage(env, body) ==
  [type |-> "contact-us", to |-> contactTo(env),
   subject |-> "Wedding Contact Form - New message", about |-> body]

\* An answer that does not wait for the publish: always 200.
contactAnswerBestEffort(acknowledged) == success(200, "Message sent successfully!")

\* handler lines 286-304: 200 after the acknowledged publish, the catch's
\* 500 otherwise.
contactAnswer(acknowledged) ==
  IF acknowledged THEN success(200, "Message sent successfully!")
  ELSE failure(500, "internal_service_error", "Failed to send message")

\* The publish and the answer (both versions): a missing topic ARN or a
\* failed send is thrown to the catch.
ContactPublish(topicArnSet, publishFails) ==
  /\ kinv.pc = "publish"
  /\ kinv' = [kinv EXCEPT !.pc = "done",
                !.published = IF ~topicArnSet THEN "none"
                              ELSE IF publishFails THEN "failed" ELSE "sent",
                !.resp = contactAnswer(topicArnSet /\ ~publishFails)]
  /\ emails' = IF topicArnSet /\ ~publishFails
               THEN Append(emails, ContactMessage(ToEmail, kinv.body)) ELSE emails
  /\ UNCHANGED <<comments, subs, topic, useRecaptcha, lreq, trav, cinv, sinv, codec, vinv, uinv, einv, ninv, dinv>>

(***************************************************************************)
(* Unsubscribe by link (GET) or by API (DELETE): the handler that answers  *)
(* a browser with a redirect                                               *)
(***************************************************************************)
\* event.requestContext?.http?.method ?? "GET"
MethodGet == T(<<"G", "E", "T">>)

UnsubMethod(method) == IF method.t \in {"undefined", "null"} THEN MethodGet ELSE method.v

\* A redirect that answers with a JSON text as body.
redirectWithBody(location) ==
  [statusCode |-> 302, location |-> [page |-> location, skipSplash |-> TRUE],
   body |-> JsStr(JsonStringify(JsObj(<<>>)))]

\* redirect: 302, the Location (the page, and whether skipSplash=true is
\* appended to its query), and the empty body.
redirect(location) ==
  [statusCode |-> 302, location |-> [page |-> location, skipSplash |-> TRUE],
   body |-> JsStr(<<>>)]

\* redirect of the copy of the handler that leaves the Location as given.
redirectPlain(location) ==
  [statusCode |-> 302, location |-> [page |-> location, skipSplash |-> FALSE],
   body |-> JsStr(<<>>)]

redirectOf(version, location) ==
  IF version = "skipSplash" THEN redirect(location) ELSE redirectPlain(location)

NoLocation == [page |-> "none", skipSplash |-> FALSE]

UnsubIdle ==
  [pc |-> "idle", version |-> "none", method |-> <<>>, raw |-> [photoId |-> Undefined, email |-> Undefined],
   photoId |-> <<>>, email |-> <<>>, store |-> "none",
   resp |-> [statusCode |-> 0, location |-> NoLocation, body |-> Undefined]]

\* The JSON answers of this handler, in the shape of the redirects.
UnsubJson(r) == [statusCode |-> r.statusCode, location |-> NoLocation, body |-> r.body]

\* The handler up to the store call: the method and the request parsed.
\* Locations are written from the path on, and the photo and email
\* parameters of the ok page are left out.
UnsubStart(version, method, ev) ==
  /\ uinv.pc = "idle"
  /\ \E req \in {parseAndValidateRequestD(ev)} :
     uinv' =
       IF req.kind = "null"
       THEN [UnsubIdle EXCEPT !.pc = "done", !.version = version,
               !.method = UnsubMethod(method), !.raw = ev,
               !.resp = IF UnsubMethod(method) = MethodGet
                        THEN redirectOf(version,
                                        "/unsubscribe?status=error&code=validation_failed")
                        ELSE UnsubJson(failure(400, "validation_failed",
                                               "Invalid or missing input"))]
       ELSE [UnsubIdle EXCEPT !.pc = "delete", !.version = version,
               !.method = UnsubMethod(method), !.raw = ev,
               !.photoId = req.photoId, !.email = req.email]
  /\ UNCHANGED <<comments, subs, topic, useRecaptcha, lreq, trav, cinv, sinv, codec, vinv, kinv, einv, ninv, dinv, emails>>

\* deleteSubscription and the answer.
UnsubDelete(storeFails) ==
  /\ uinv.pc = "delete"
  /\ subs' = IF storeFails THEN subs ELSE subs \ {Row(uinv.photoId, uinv.email)}
  /\ uinv' = [uinv EXCEPT !.pc = "done", !.store = StoreAnswer(storeFails, TRUE, "none"),
                !.resp = IF uinv.method = MethodGet
                         THEN redirectOf(uinv.version,
                                         IF storeFails
                                         THEN "/unsubscribe?status=error&code=internal_service_error"
                                         ELSE "/unsubscribe?status=ok")
                         ELSE IF storeFails
                         THEN UnsubJson(failure(500, "internal_service_error",
                                                "An unexpected error occurred"))
                         ELSE UnsubJson(success(200, [photoId |-> uinv.photoId,
                                                      email |-> uinv.email,
                                                      unsubscribed |-> TRUE]))]
  /\ UNCHANGED <<comments, topic, useRecaptcha, lreq, trav, cinv, sinv, codec, vinv, kinv, einv, ninv, dinv, emails>>

(***************************************************************************)
(* Notification manager: the listener of the comment topic.  For every     *)
(* record of its event it lists the photo's subscriptions, reads the       *)
(* comment, and publishes one email message per recipient                  *)
(***************************************************************************)
AttrType == T(<<"t", "y", "p", "e">>)
AttrCommentId == T(<<"c", "o", "m", "m", "e", "n", "t", "I", "d">>)
AttrTo == T(<<"t", "o">>)
AttrSubject == T(<<"s", "u", "b", "j", "e", "c", "t">>)
TypeCommentCreated == T(<<"c", "o", "m", "m", "e", "n", "t", "-", "c", "r", "e", "a", "t", "e", "d">>)

\* The Message of the record a published comment event arrives in:
\* JSON.stringify(e).
SnsMessage(e) ==
  JsonStringify(JsObj(<< <<AttrType, JsStr(TypeCommentCreated)>>,
                         <<AttrPhotoId, JsStr(e.photoId)>>,
                         <<AttrCommentId, JsStr(e.commentId)>> >>))

\* conf.ownerEmails: (process.env.OWNER_EMAILS || "").split(",")
ownerEmails(env) == Split(IF Truthy(env) THEN env.v ELSE <<>>, 44)

\* Rows in the order of their sort key (email).
RECURSIVE RowOrder(_)
RowOrder(rows) ==
  IF rows = {} THEN <<>>
  ELSE LET first == CHOOSE x \in rows : \A y \in rows \ {x} : LexLess(x.email, y.email)
       IN <<first>> \o RowOrder(rows \ {first})

\* listSubscriptions: one Query of the photo's partition, no Limit; the
\* store cuts the answer after cap rows when more follow, and the
\* continuation key is not read.
listSubscriptions(table, photoId, cap) ==
  LET all == RowOrder({r \in table : r.photoId = photoId})
  IN IF Len(all) > cap THEN SubSeq(all, 1, cap) ELSE all

\* getComment: the items the commentId index holds for the id (the Query
\* returns them in no defined order and the first is taken).
getComment(table, commentId) == {x \in table : x.commentId = commentId}

\* subscriptions.push(...ownerEmails.map(e => ({email: e, photoId})))
withOwners(listed, owners, photoId) ==
  listed \o [k \in 1..Len(owners) |-> Row(photoId, owners[k])]

\* The EmailNotificationMessage for one recipient; text and html are
\* built from the comment, the recipient's address and the photo.
NotificationMessage(s, comment) ==
  [type |-> "comment-notification", to |-> <<s.email>>,
   subject |-> "Matrimonio Chiara & Simone - Nuovo commento",
   about |-> [photoId |-> s.photoId, comment |-> comment]]

\* What is known of the record in progress: what listSubscriptions
\* returned, the sends attempted and the messages the topic accepted.
NoRecordLog ==
  [outcome |-> "none", listed |-> <<>>, stored |-> {}, found |-> FALSE,
   attempts |-> 0, accepted |-> <<>>]

NotifyIdle ==
  [pc |-> "idle", ownerEmails |-> <<>>, records |-> <<>>, k |-> 0,
   photoId |-> Undefined, commentId |-> Undefined, subscriptions |-> <<>>,
   comment |-> NoComment, j |-> 0, cur |-> NoRecordLog, log |-> <<>>,
   raised |-> FALSE]

\* The loop of a queue-triggered handler moves to the record after k, or
\* returns after the last.
NextRecord(r) ==
  [r EXCEPT !.k = r.k + 1,
            !.pc = IF r.k + 1 > Len(r.records) THEN "done" ELSE "record"]

\* A loop without the try/catch: the first failure is raised from the
\* handler.
NotifyRecordEndedRaising(r, outcome) ==
  IF outcome = "failed"
  THEN [r EXCEPT !.pc = "done", !.raised = TRUE,
          !.log = Append(r.log, [r.cur EXCEPT !.outcome = outcome]),
          !.cur = NoRecordLog]
  ELSE [NextRecord(r) EXCEPT
          !.log = Append(r.log, [r.cur EXCEPT !.outcome = outcome]),
          !.cur = NoRecordLog, !.photoId = Undefined, !.commentId = Undefined,
          !.subscriptions = <<>>, !.comment = NoComment, !.j = 0]

\* handler lines 44-51: the record ends - handled, or its failure caught
\* and logged - and the loop goes on.
NotifyRecordEnded(r, outcome) ==
  [NextRecord(r) EXCEPT
     !.log = Append(r.log, [r.cur EXCEPT !.outcome = outcome]),
     !.cur = NoRecordLog, !.photoId = Undefined, !.commentId = Undefined,
     !.subscriptions = <<>>, !.comment = NoComment, !.j = 0]

\* The topic delivers an event of records to the handler.
NotifyStart(ownerEnv, records) ==
  /\ ninv.pc = "idle"
  /\ ninv' = [NotifyIdle EXCEPT !.pc = IF records = <<>> THEN "done" ELSE "record",
                !.ownerEmails = ownerEmails(ownerEnv), !.records = records, !.k = 1]
  /\ UNCHANGED <<comments, subs, topic, useRecaptcha, lreq, trav, cinv, sinv, codec,
                 vinv, kinv, uinv, einv, dinv, emails>>

\* handler lines 45-46 and handleEvent: the message is parsed and its type
\* read; an unparsable message and null throw, another type is ignored.
NotifyRecord ==
  /\ ninv.pc = "record"
  /\ \E parsed \in {JsonParse(ninv.records[ninv.k])} :
     ninv' =
       IF ~parsed.ok \/ parsed.val.t = "null"
       THEN NotifyRecordEnded(ninv, "failed")
       ELSE IF GetProp(parsed.val, AttrType) = JsStr(TypeCommentCreated)
       THEN [ninv EXCEPT !.pc = "list",
               !.photoId = GetProp(parsed.val, AttrPhotoId),
               !.commentId = GetProp(parsed.val, AttrCommentId)]
       ELSE NotifyRecordEnded(ninv, "ignored")
  /\ UNCHANGED <<comments, subs, topic, useRecaptcha, lreq, trav, cinv, sinv, codec,
                 vinv, kinv, uinv, einv, dinv, emails>>

\* handleCommentCreated lines 70-82: the subscriptions are listed and the
\* owner addresses appended; a photoId that is no string is refused by the
\* store call.
NotifyList(storeFails) ==
  /\ ninv.pc = "list"
  /\ ninv' =
       IF storeFails \/ ninv.photoId.t # "str"
       THEN NotifyRecordEnded(ninv, "failed")
       ELSE LET listed == listSubscriptions(subs, ninv.photoId.v, ScanCap) IN
            [ninv EXCEPT !.pc = "get",
               !.subscriptions = withOwners(listed, ninv.ownerEmails, ninv.photoId.v),
               !.cur = [@ EXCEPT !.listed = listed,
                          !.stored = {r \in subs : r.photoId = ninv.photoId.v}]]
  /\ UNCHANGED <<comments, subs, topic, useRecaptcha, lreq, trav, cinv, sinv, codec,
                 vinv, kinv, uinv, einv, dinv, emails>>

\* handleCommentCreated lines 84-90: the comment is read by its id; when
\* there is none the record is done.
NotifyGet(storeFails) ==
  /\ ninv.pc = "get"
  /\ IF storeFails \/ ninv.commentId.t # "str"
     THEN ninv' = NotifyRecordEnded(ninv, "failed")
     ELSE IF getComment(comments, ninv.commentId.v) = {}
     THEN ninv' = NotifyRecordEnded(ninv, "not_found")
     ELSE \E c \in getComment(comments, ninv.commentId.v) :
            ninv' = [ninv EXCEPT !.pc = "publish", !.j = 1,
                       !.comment = mapItemsToComments(<<c>>)[1],
                       !.cur = [@ EXCEPT !.found = TRUE]]
  /\ UNCHANGED <<comments, subs, topic, useRecaptcha, lreq, trav, cinv, sinv, codec,
                 vinv, kinv, uinv, einv, dinv, emails>>

\* handleCommentCreated lines 93-131: one iteration of the loop over the
\* recipients; a failed publish is thrown out of the loop.
NotifyPublish(publishFails) ==
  /\ ninv.pc = "publish"
  /\ LET msg == NotificationMessage(ninv.subscriptions[ninv.j], ninv.comment)
         tried == [ninv EXCEPT !.cur = [@ EXCEPT !.attempts = @ + 1]]
     IN
     /\ emails' = IF publishFails THEN emails ELSE Append(emails, msg)
     /\ ninv' =
          IF publishFails THEN NotifyRecordEnded(tried, "failed")
          ELSE LET sent == [tried EXCEPT !.cur = [@ EXCEPT !.accepted = Append(@, msg)]]
               IN IF ninv.j = Len(ninv.subscriptions)
                  THEN NotifyRecordEnded(sent, "handled")
                  ELSE [sent EXCEPT !.j = @ + 1]
  /\ UNCHANGED <<comments, subs, topic, useRecaptcha, lreq, trav, cinv, sinv, codec,
                 vinv, kinv, uinv, einv, dinv>>

(***************************************************************************)
(* Email dispatcher: the listener of the email topic                       *)
(***************************************************************************)
\* The Message of the record an email message arrives in.
EmailText(m) ==
  JsonStringify(JsObj(<< <<AttrTo, JsArr([k \in 1..Len(m.to) |-> JsStr(m.to[k])])>> >>))

DispatchIdle ==
  [pc |-> "idle", records |-> <<>>, k |-> 0, log |-> <<>>, outbox |-> <<>>,
   raised |-> FALSE]

\* handler lines 13-39: the record ends - sent, or its failure caught and
\* logged - and the loop goes on.
DispatchRecordEnded(r, outcome, attempts) ==
  [NextRecord(r) EXCEPT
     !.log = Append(r.log, [outcome |-> outcome, attempts |-> attempts])]

DispatchStart(records) ==
  /\ dinv.pc = "idle"
  /\ dinv' = [DispatchIdle EXCEPT !.pc = IF records = <<>> THEN "done" ELSE "record",
                !.records = records, !.k = 1]
  /\ UNCHANGED <<comments, subs, topic, useRecaptcha, lreq, trav, cinv, sinv, codec,
                 vinv, kinv, uinv, einv, ninv, emails>>

\* handler lines 14-35: the message is parsed, payload.to.join is called
\* for the log line (it throws unless to is an array), and the mail is
\* sent once.
DispatchRecord(mailFails) ==
  /\ dinv.pc = "record"
  /\ \E parsed \in {JsonParse(dinv.records[dinv.k])} :
     LET to == GetProp(parsed.val, AttrTo) IN
     dinv' =
       IF ~parsed.ok \/ parsed.val.t = "null" \/ to.t # "arr"
       THEN DispatchRecordEnded(dinv, "failed", 0)
       ELSE IF mailFails
       THEN DispatchRecordEnded(dinv, "failed", 1)
       ELSE [DispatchRecordEnded(dinv, "sent", 1) EXCEPT
               !.outbox = Append(dinv.outbox, [to |-> to.v, record |-> dinv.k])]
  /\ UNCHANGED <<comments, subs, topic, useRecaptcha, lreq, trav, cinv, sinv, codec,
                 vinv, kinv, uinv, einv, ninv, emails>>

(***************************************************************************)
(* Inputs                                                                  *)
(***************************************************************************)
\* The (createdAt, ulid) pairs an invocation may generate: two instants,
\* two ulids within the second one.
Generated ==
  {<<T(<<"1">>), T(<<"a">>)>>, <<T(<<"2">>), T(<<"a">>)>>, <<T(<<"2">>), T(<<"b">>)>>}

ListEvent(photoId, limit, order, cursor, pageIndex, pageSize) ==
  [photoId |-> photoId, limit |-> limit, order |-> order, cursor |-> cursor,
   pageIndex |-> pageIndex, pageSize |-> pageSize]

EventB(photoId, limit, order, cursor) ==
  ListEvent(photoId, limit, order, cursor, Undefined, Undefined)

EventA(photoId, pageIndex, pageSize, order) ==
  ListEvent(photoId, Undefined, order, Undefined, pageIndex, pageSize)

ListPhotoIds == {JsStr(P1), Undefined}
RawLimits == {Undefined, JsStr(T(<<"1">>)), JsStr(T(<<"2">>))}
RawOrders == {Undefined, JsStr(T(<<"a", "s", "c">>))}
RawPageIndexes == {Undefined} \cup {JsStr(NatToText(n)) : n \in 2..MaxPageIndex}

\* Cursors no response returned: the empty text, a text that is not JSON
\* after base64 decoding, and the base64 of the JSON texts 123, null and {}.
ForeignCursors ==
  {JsStr(<<>>),
   JsStr(T(<<"n", "o", "t", "-", "b", "a", "s", "e", "6", "4", "-", "j", "s", "o", "n">>)),
   JsStr(T(<<"M", "T", "I", "z">>)),
   JsStr(T(<<"b", "n", "V", "s", "b", "A", "=", "=">>)),
   JsStr(T(<<"e", "3", "0", "=">>))}

Token == JsStr(T(<<"t", "o", "k">>))

CommentBody(authorName, content, token) ==
  JsStr(JsonStringify(JsObj(<< <<AttrAuthorName, authorName>>, <<AttrContent, content>>,
                               <<AttrToken, token>> >>)))

CreateEvent(photoId, body) == [photoId |-> photoId, body |-> body]

Al == JsStr(T(<<" ", "A", "l", " ">>))
Hi == JsStr(T(<<"h", "i">>))
Yo == JsStr(T(<<"y", "o", "!">>))

\* The creation request of the listing specification: valid, no CAPTCHA.
ListCreateEvents == {CreateEvent(JsStr(P1), CommentBody(Al, Hi, Undefined))}

\* Comments that earlier invocations may have stored: those of the request
\* above, and one under another photo.
StoredBefore ==
  {NewComment([photoId |-> P1, authorName |-> T(<<"A", "l">>), content |-> T(<<"h", "i">>)],
              g[1], g[2]) : g \in Generated}
  \cup {NewComment([photoId |-> P2, authorName |-> T(<<"A", "l">>),
                    content |-> T(<<"h", "i">>)], T(<<"1">>), T(<<"a">>))}

\* Creation requests: valid ones with and without token, and rejected ones
\* (no photoId, no body, a body that is not JSON, the JSON text null, a bad
\* author name, an empty content).
CreateEvents ==
  {CreateEvent(JsStr(P1), CommentBody(Al, c, t)) : c \in {Hi, Yo}, t \in {Undefined, Token}}
  \cup {CreateEvent(Undefined, CommentBody(Al, Hi, Token)),
        CreateEvent(JsStr(P1), Undefined),
        CreateEvent(JsStr(P1), JsStr(T(<<"{", "x">>))),
        CreateEvent(JsStr(P1), JsStr(T(<<"n", "u", "l", "l">>))),
        CreateEvent(JsStr(P1), CommentBody(JsStr(T(<<"A", "_">>)), Hi, Token)),
        CreateEvent(JsStr(P1), CommentBody(Al, JsStr(T(<<" ">>)), Token))}

CaptchaOutcomes == {"human", "not_human", "throws"}

SubBody(email, token) ==
  JsStr(JsonStringify(JsObj(<< <<AttrEmail, email>>, <<AttrToken, token>> >>)))

\* Two spellings of one address, another address, and a text that is none.
EmailUpper == T(<<" ", "A", "n", "@", "B", ".", "c", " ">>)
EmailLower == T(<<"a", "n", "@", "b", ".", "c">>)
EmailOther == T(<<"x", "@", "y", ".", "z">>)
EmailBad == T(<<"a", "n", "@", "b">>)

SubCreateEvents ==
  {CreateEvent(JsStr(P1), SubBody(JsStr(e), Token)) : e \in {EmailUpper, EmailLower, EmailOther}}
  \cup {CreateEvent(JsStr(P1), SubBody(JsStr(EmailLower), Undefined)),
        CreateEvent(Undefined, SubBody(JsStr(EmailLower), Token)),
        CreateEvent(JsStr(P1), SubBody(JsStr(EmailBad), Token)),
        CreateEvent(JsStr(P1), JsStr(T(<<"n", "u", "l", "l">>)))}

SubCaptchaOutcomes == {"human", "expired", "invalid", "unavailable", "throws"}

DeleteEvent(photoId, email) == [photoId |-> photoId, email |-> email]

\* Path segments: the address escaped, in capitals with escaped blanks, the
\* other address, a broken escape, and only blanks.
SubDeleteEvents ==
  {DeleteEvent(JsStr(P1), JsStr(e)) :
     e \in {T(<<"a", "n", "%", "4", "0", "b", ".", "c">>),
            T(<<"%", "2", "0", "A", "N", "@", "b", ".", "C", "%", "2", "0">>),
            EmailOther,
            T(<<"%", "4">>),
            T(<<"%", "2", "0">>)}}
  \cup {DeleteEvent(JsStr(P1), Undefined)}

\* Store keys for the codec: comment keys whose texts hold quotes, a
\* backslash, a line feed, and characters of two, three and four UTF-8 bytes;
\* and mappings to a number, a boolean and null.
KeyTexts ==
  {T(<<"p", "1">>), <<34, 97, 34>>, <<92, 110>>, <<10>>, <<233, 8364>>, <<128512, 47>>, <<>>}

AttrN == T(<<"n">>)

CodecKeys ==
  {CommentKey([photoId |-> a, sk |-> b]) : a \in KeyTexts, b \in KeyTexts}
  \cup {JsObj(<< <<AttrN, v>> >>) : v \in {JsNum(0), JsNum(42), JsNum(0 - 7), JsBool(TRUE),
                                             JsBool(FALSE), Null}}

\* Envelope inputs: status codes, payloads, correlation ids.
EnvelopeStatuses == {200, 201, 400, 500}

EnvelopePayloads ==
  {JsObj(<<>>),
   JsObj(<< <<AttrMessage, JsStr(T(<<"o", "k">>))>> >>),
   JsObj(<< <<AttrEmail, JsStr(EmailLower)>>, <<T(<<"u", "n", "s", "u", "b", "s", "c", "r", "i", "b", "e", "d">>), JsBool(TRUE)>> >>),
   JsObj(<< <<T(<<"e", "l", "e", "m", "e", "n", "t", "s">>), JsArr(<<JsObj(<< <<AttrContent, JsStr(T(<<"a", "DQ", "b">>))>> >>)>>)>>,
            <<T(<<"h", "a", "s", "N", "e", "x", "t">>), JsBool(FALSE)>>, <<T(<<"t", "o", "t", "a", "l", "E", "l", "e", "m", "e", "n", "t", "s">>), JsNum(1)>> >>),
   JsObj(<< <<T(<<"c", "u", "r", "s", "o", "r">>), Undefined>>, <<T(<<"h", "a", "s", "N", "e", "x", "t">>), JsBool(FALSE)>> >>),
   JsArr(<<JsNum(1), Null>>),
   JsStr(T(<<"d", "o", "n", "e">>)),
   Null}

EnvelopeErrorCodes == {JsStr(T(<<"v", "a", "l", "i", "d", "a", "t", "i", "o", "n", "_", "f", "a", "i", "l", "e", "d">>)), JsStr(T(<<"i", "n", "t", "e", "r", "n", "a", "l", "_", "s", "e", "r", "v", "i", "c", "e", "_", "e", "r", "r", "o", "r">>))}
EnvelopeMessages == {JsStr(T(<<"x">>)), JsStr(T(<<"I", "n", "v", "a", "l", "i", "d", " ", "o", "r", " ", "m", "i", "s", "s", "i", "n", "g", " ", "i", "n", "p", "u", "t">>))}
LambdaRequestIds == {JsStr(T(<<"L", "1">>)), JsStr(T(<<"L", "2">>))}
ApiGwRequestIds == {JsStr(T(<<"G", "1">>)), Undefined}

\* The error codes of the verification service, and one it does not name.
UpstreamCodes ==
  {T(<<"m", "i", "s", "s", "i", "n", "g", "-", "i", "n", "p", "u", "t", "-", "s", "e", "c", "r", "e", "t">>), T(<<"i", "n", "v", "a", "l", "i", "d", "-", "i", "n", "p", "u", "t", "-", "s", "e", "c", "r", "e", "t">>), T(<<"m", "i", "s", "s", "i", "n", "g", "-", "i", "n", "p", "u", "t", "-", "r", "e", "s", "p", "o", "n", "s", "e">>),
   T(<<"i", "n", "v", "a", "l", "i", "d", "-", "i", "n", "p", "u", "t", "-", "r", "e", "s", "p", "o", "n", "s", "e">>), T(<<"b", "a", "d", "-", "r", "e", "q", "u", "e", "s", "t">>), T(<<"t", "i", "m", "e", "o", "u", "t", "-", "o", "r", "-", "d", "u", "p", "l", "i", "c", "a", "t", "e">>), T(<<"q", "u", "o", "t", "a", "-", "e", "x", "c", "e", "e", "d", "e", "d">>)}

\* Longest list of error codes in one upstream answer.
MaxCodes == 2

CodeLists ==
  UNION {[1..n -> {JsStr(c) : c \in UpstreamCodes}] : n \in 0..MaxCodes}

UpstreamAnswer(verified, codes) ==
  JsObj(<< <<AttrSuccess, JsBool(verified)>> >>
        \o (IF codes.t = "undefined" THEN <<>> ELSE << <<AttrUpstreamCodes, codes>> >>))

\* What the call of the verification service does: an answer (any HTTP
\* status: validateStatus accepts all), a timeout, another network failure
\* (with or without an error code), or a throw that is not of the client.
Upstreams ==
  {[kind |-> "response", data |-> UpstreamAnswer(FALSE, JsArr(l))] : l \in CodeLists}
  \cup {[kind |-> "response", data |-> d] :
          d \in {UpstreamAnswer(TRUE, Undefined), UpstreamAnswer(FALSE, Undefined),
                 UpstreamAnswer(FALSE, JsStr(T(<<"i", "n", "v", "a", "l", "i", "d", "-", "i", "n", "p", "u", "t", "-", "r", "e", "s", "p", "o", "n", "s", "e">>))),
                 Undefined, Null, JsStr(T(<<"<", "h", "t", "m", "l", ">">>))}}
  \cup {[kind |-> "timeout", data |-> JsStr(T(<<"E", "C", "O", "N", "N", "A", "B", "O", "R", "T", "E", "D">>))],
        [kind |-> "network", data |-> JsStr(T(<<"E", "N", "O", "T", "F", "O", "U", "N", "D">>))],
        [kind |-> "network", data |-> Undefined],
        [kind |-> "throws", data |-> Undefined]}

ValidatorBody(token) ==
  JsStr(JsonStringify(JsObj(<< <<T(<<"t", "o", "k", "e", "n">>), token>> >>)))

\* event.body of the validator: absent, not JSON, without a token, null,
\* and with a token.
ValidatorBodies ==
  {Undefined, JsStr(T(<<"{", "b", "a", "d">>)), JsStr(T(<<"{", "}">>)), JsStr(T(<<"n", "u", "l", "l">>)), ValidatorBody(JsStr(<<>>)),
   ValidatorBody(Token), ValidatorBody(JsStr(T(<<"s", "t", "a", "l", "e">>)))}

ContactBody(name, message, email, phone, token) ==
  JsStr(JsonStringify(JsObj(<< <<AttrName, name>>, <<AttrSurname, JsStr(T(<<"R", "o">>))>>,
                               <<AttrMessage, message>>, <<AttrEmail, email>>,
                               <<AttrPhone, phone>>, <<AttrToken, token>> >>)))

\* event.body of contact-us: absent, not JSON, the JSON text null, complete
\* (with and without token, reachable by email or by phone), and without a
\* name, a message, or a way to answer.
ContactBodies ==
  {Undefined, JsStr(T(<<"{", "x">>)), JsStr(T(<<"n", "u", "l", "l">>)),
   ContactBody(Al, Hi, JsStr(EmailLower), Undefined, Token),
   ContactBody(Al, Hi, Undefined, JsStr(T(<<"5", "5", "5">>)), Undefined),
   ContactBody(Undefined, Hi, JsStr(EmailLower), Undefined, Token),
   ContactBody(Al, JsStr(<<>>), JsStr(EmailLower), Undefined, Token),
   ContactBody(Al, Hi, Undefined, Undefined, Token)}

\* Unsubscribe requests: those of subscription deletion, and one without
\* photoId.
UnsubEvents == SubDeleteEvents \cup {DeleteEvent(Undefined, JsStr(EmailOther))}

\* requestContext.http.method of an unsubscribe request.
UnsubMethods == {Undefined, JsStr(T(<<"G", "E", "T">>)), JsStr(T(<<"D", "E", "L", "E", "T", "E">>))}

\* The answers of the verification service in the specification of the
\* HTTP handlers: verified, rejected for each response-side code, a secret
\* error, and the failures of the call.
GateUpstreams ==
  {[kind |-> "response", data |-> UpstreamAnswer(TRUE, Undefined)],
   [kind |-> "response", data |-> UpstreamAnswer(FALSE, JsArr(<<JsStr(T(<<"i", "n", "v", "a", "l", "i", "d", "-", "i", "n", "p", "u", "t", "-", "r", "e", "s", "p", "o", "n", "s", "e">>))>>))],
   [kind |-> "response", data |-> UpstreamAnswer(FALSE, JsArr(<<JsStr(T(<<"t", "i", "m", "e", "o", "u", "t", "-", "o", "r", "-", "d", "u", "p", "l", "i", "c", "a", "t", "e">>))>>))],
   [kind |-> "response", data |-> UpstreamAnswer(FALSE, JsArr(<<JsStr(T(<<"b", "a", "d", "-", "r", "e", "q", "u", "e", "s", "t">>))>>))],
   [kind |-> "response", data |-> UpstreamAnswer(FALSE, JsArr(<<JsStr(T(<<"i", "n", "v", "a", "l", "i", "d", "-", "i", "n", "p", "u", "t", "-", "s", "e", "c", "r", "e", "t">>))>>))],
   [kind |-> "timeout", data |-> JsStr(T(<<"E", "C", "O", "N", "N", "A", "B", "O", "R", "T", "E", "D">>))],
   [kind |-> "network", data |-> Undefined],
   [kind |-> "throws", data |-> Undefined]}

Deliveries == {"answer", "threw", "function_error", "empty", "garbled"}

\* Subscription requests, also without a body and with a body that is not
\* JSON.
HttpSubCreateEvents ==
  SubCreateEvents
  \cup {CreateEvent(JsStr(P1), Undefined), CreateEvent(JsStr(P1), JsStr(T(<<"{", "x">>)))}

\* A comment that an earlier invocation may have stored: the first of the
\* photo.
CommentsBefore ==
  {c \in StoredBefore :
     c.photoId = P1 /\ \A d \in StoredBefore : d.photoId = P1 => ~LexLess(d.sk, c.sk)}

\* A subscription that an earlier invocation may have stored.
SubsBefore == {Row(P1, EmailLower)}

\* Requested limits as numbers: below the range, at its ends, inside and
\* above it.
LimitNumbers == {-5, 0, 1, 7, 1000, 1001, 5000}

LimitParameter(n) == JsStr(IntToText(n))

\* Limits that are not numbers: absent, empty, a word.
LimitsNotNumeric == {Undefined, JsStr(<<>>), JsStr(T(<<"a", "b", "c">>))}

(***************************************************************************)
(* Specifications                                                          *)
(***************************************************************************)
Idle ==
  /\ subs = {}
  /\ topic = {}
  /\ lreq = ListIdle
  /\ trav = NoTraversal
  /\ cinv = [i \in 1..NumCreators |-> CreateIdle]
  /\ sinv = [i \in 1..NumSubscribers |-> SubIdle]
  /\ codec = CodecIdle
  /\ vinv = ValidatorIdle
  /\ kinv = ContactIdle
  /\ uinv = UnsubIdle
  /\ einv = EnvelopeIdle
  /\ ninv = NotifyIdle
  /\ dinv = DispatchIdle
  /\ emails = <<>>

\* Empty tables, no invocation yet.
Init == comments = {} /\ useRecaptcha \in BOOLEAN /\ Idle

\* Listing in both modes while one comment is created, over the comments
\* of earlier invocations.
InitList ==
  /\ comments \in {S \in SUBSET StoredBefore : Cardinality(S) <= MaxComments}
  /\ useRecaptcha = FALSE
  /\ Idle

NextList ==
  \/ \E p \in ListPhotoIds, l \in RawLimits, o \in RawOrders :
       ListBFirst(EventB(p, l, o, Undefined))
  \/ ListBFollow(EventB(trav.photoId, trav.limit, trav.order, trav.next))
  \/ \E c \in ForeignCursors, l \in RawLimits :
       ListBForeign(EventB(JsStr(P1), l, Undefined, c))
  \/ \E f \in BOOLEAN : ListBPage(f)
  \/ \E p \in ListPhotoIds, x \in RawPageIndexes, z \in RawLimits, o \in RawOrders :
       ListAStart(EventA(p, x, z, o))
  \/ \E f \in BOOLEAN : ListAWalk(f)
  \/ \E f \in BOOLEAN : ListCount(f)
  \/ \E ev \in ListCreateEvents : CreateStart(1, ev, "human")
  \/ \E g \in Generated, f \in BOOLEAN : CreatePut(1, g[1], g[2], f)
  \/ CreatePublish(1, FALSE)

SpecList == InitList /\ [][NextList]_vars

\* Invocations are numbered in their order of arrival.
Arrives(inv, i) == \A j \in 1..(i - 1) : inv[j].pc # "idle"

\* Overlapping comment creations.
NextCreate ==
  \/ \E i \in 1..NumCreators, ev \in CreateEvents, c \in CaptchaOutcomes :
       Arrives(cinv, i) /\ CreateStart(i, ev, c)
  \/ \E i \in 1..NumCreators, g \in Generated, f \in BOOLEAN : CreatePut(i, g[1], g[2], f)
  \/ \E i \in 1..NumCreators, f \in BOOLEAN : CreatePublish(i, f)

SpecCreate == Init /\ [][NextCreate]_vars

\* Overlapping subscription creations and deletions.
NextSubs ==
  \/ \E i \in 1..NumSubscribers, ev \in SubCreateEvents, c \in SubCaptchaOutcomes :
       Arrives(sinv, i) /\ SubCreateStart(i, ev, c)
  \/ \E i \in 1..NumSubscribers, f \in BOOLEAN : SubCreatePut(i, f)
  \/ \E i \in 1..NumSubscribers, ev \in SubDeleteEvents :
       Arrives(sinv, i) /\ SubDeleteStart(i, ev)
  \/ \E i \in 1..NumSubscribers, f \in BOOLEAN : SubDelete(i, f)

SpecSubs == Init /\ [][NextSubs]_vars

\* The codec on store keys and on made-up cursors.
InitCodec == comments = {} /\ useRecaptcha = FALSE /\ Idle

NextCodec ==
  \/ \E k \in CodecKeys \cup {Undefined, Null} : CodecEncode(k)
  \/ CodecDecode
  \/ \E c \in ForeignCursors : CodecDecodeForeign(c)

SpecCodec == InitCodec /\ [][NextCodec]_vars

\* The envelope functions, one call each.
NextEnvelope ==
  \/ \E s \in EnvelopeStatuses, b \in EnvelopePayloads,
        l \in LambdaRequestIds, g \in ApiGwRequestIds : EnvelopeSuccess(s, b, l, g)
  \/ \E s \in EnvelopeStatuses, c \in EnvelopeErrorCodes, m \in EnvelopeMessages,
        l \in LambdaRequestIds, g \in ApiGwRequestIds : EnvelopeFailure(s, c, m, l, g)
  \/ \E s \in EnvelopeStatuses, b \in EnvelopePayloads : EnvelopeNoIds("success", s, b)
  \/ \E s \in EnvelopeStatuses, c \in EnvelopeErrorCodes, m \in EnvelopeMessages :
       EnvelopeNoIds("failure", s, JsObj(<< <<AttrErrorCode, c>>, <<AttrMessage, m>> >>))

SpecEnvelope == InitCodec /\ [][NextEnvelope]_vars

\* The validator lambda, one invocation.
NextValidator ==
  \E b \in ValidatorBodies, s \in BOOLEAN, u \in Upstreams : ValidatorHandle(b, s, u)

SpecValidator == InitCodec /\ [][NextValidator]_vars

\* No handler invocation yet.
Quiet ==
  /\ lreq.pc = "idle" /\ cinv[1].pc = "idle" /\ sinv[1].pc = "idle"
  /\ kinv.pc = "idle" /\ uinv.pc = "idle"

\* Every HTTP handler, one request in a behaviour.  The step of a handler
\* up to its store call is atomic, so the invocation of the validator that
\* a CAPTCHA-gating handler makes is taken before it: the handler reads
\* vinv.out only on the path that invokes.  The validator is also invoked
\* directly (it is an HTTP handler itself).
InitHttp ==
  /\ comments \in {{}, CommentsBefore}
  /\ subs \in {{}, SubsBefore}
  /\ useRecaptcha \in BOOLEAN
  /\ topic = {} /\ lreq = ListIdle /\ trav = NoTraversal
  /\ cinv = [i \in 1..NumCreators |-> CreateIdle]
  /\ sinv = [i \in 1..NumSubscribers |-> SubIdle]
  /\ codec = CodecIdle /\ vinv = ValidatorIdle /\ kinv = ContactIdle
  /\ uinv = UnsubIdle /\ einv = EnvelopeIdle
  /\ ninv = NotifyIdle /\ dinv = DispatchIdle /\ emails = <<>>

NextHttp ==
  \/ \E b \in ValidatorBodies, s \in BOOLEAN, u \in GateUpstreams :
       Quiet /\ ValidatorHandle(b, s, u)
  \/ \E d \in Deliveries :
       Quiet /\ vinv.body = ValidatorBody(Token) /\ ValidatorDeliver(d)
  \/ /\ Quiet /\ vinv.pc = "delivered"
     /\ \E ev \in CreateEvents, c \in {validateRecaptchaBoolean(vinv.out)} : CreateStart(1, ev, c)
  \/ \E g \in Generated, f \in BOOLEAN : CreatePut(1, g[1], g[2], f)
  \/ \E f \in BOOLEAN : CreatePublish(1, f)
  \/ /\ Quiet /\ vinv.pc = "delivered"
     /\ \E ev \in HttpSubCreateEvents, c \in {captchaOutcome(validateRecaptcha(vinv.out))} : SubCreateStart(1, ev, c)
  \/ \E f \in BOOLEAN : SubCreatePut(1, f)
  \/ \E ev \in SubDeleteEvents : Quiet /\ vinv.pc = "idle" /\ SubDeleteStart(1, ev)
  \/ \E f \in BOOLEAN : SubDelete(1, f)
  \/ /\ Quiet /\ vinv.pc = "delivered"
     /\ \E b \in ContactBodies, c \in {captchaOutcome(validateRecaptcha(vinv.out))} : ContactStart(b, c)
  \/ /\ Quiet /\ vinv.pc = "delivered"
     /\ \E b \in ContactBodies, c \in {validateRecaptchaMinimal(vinv.out)} : ContactStartEarlier(b, c)
  \/ \E t \in BOOLEAN, f \in BOOLEAN : ContactPublish(t, f)
  \/ \E v \in {"skipSplash", "plain"}, m \in UnsubMethods, ev \in UnsubEvents :
       Quiet /\ vinv.pc = "idle" /\ UnsubStart(v, m, ev)
  \/ \E f \in BOOLEAN : UnsubDelete(f)
  \/ \E p \in ListPhotoIds, l \in RawLimits :
       Quiet /\ vinv.pc = "idle" /\ ListBFirst(EventB(p, l, Undefined, Undefined))
  \/ \E f \in BOOLEAN : ListBPage(f)
  \/ \E p \in ListPhotoIds, x \in RawPageIndexes :
       Quiet /\ vinv.pc = "idle" /\ ListAStart(EventA(p, x, Undefined, Undefined))
  \/ \E f \in BOOLEAN : ListAWalk(f)
  \/ \E f \in BOOLEAN : ListCount(f)

SpecHttp == InitHttp /\ [][NextHttp]_vars

\* Cursor-mode first requests over the whole range of limits.
NextLimit ==
  \/ \E p \in ListPhotoIds, l \in {LimitParameter(n) : n \in LimitNumbers} \cup LimitsNotNumeric :
       ListBFirst(EventB(p, l, Undefined, Undefined))
  \/ \E f \in BOOLEAN : ListBPage(f)
  \/ \E f \in BOOLEAN : ListCount(f)

SpecLimit == InitList /\ [][NextLimit]_vars

\* List requests of both modes and a cursor traversal while several
\* comments are created on the photo.
NextBusy ==
  \/ \E l \in RawLimits, o \in RawOrders : ListBFirst(EventB(JsStr(P1), l, o, Undefined))
  \/ ListBFollow(EventB(trav.photoId, trav.limit, trav.order, trav.next))
  \/ ListBPage(FALSE)
  \/ \E x \in RawPageIndexes : ListAStart(EventA(JsStr(P1), x, JsStr(T(<<"2">>)), Undefined))
  \/ ListAWalk(FALSE)
  \/ ListCount(FALSE)
  \/ \E i \in 1..NumCreators, ev \in ListCreateEvents :
       Arrives(cinv, i) /\ CreateStart(i, ev, "human")
  \/ \E i \in 1..NumCreators, g \in Generated : CreatePut(i, g[1], g[2], FALSE)
  \/ \E i \in 1..NumCreators : CreatePublish(i, FALSE)

SpecBusy == InitList /\ [][NextBusy]_vars

\* Largest number of pages a client asks for one after the other.
MaxPages == 3

\* A client pages through a photo by page index while comments are
\* created.
NextPages ==
  \/ \E z \in RawLimits, o \in RawOrders :
       ListAFirstPage(EventA(JsStr(P1), Undefined, z, o))
  \/ /\ Len(trav.pages) < MaxPages
     /\ ListANextPage(EventA(trav.photoId, JsStr(NatToText(Len(trav.pages) + 1)),
                            trav.limit, trav.order))
  \/ \E f \in BOOLEAN : ListAWalk(f)
  \/ \E f \in BOOLEAN : ListCount(f)
  \/ \E ev \in ListCreateEvents : CreateStart(1, ev, "human")
  \/ \E g \in Generated, f \in BOOLEAN : CreatePut(1, g[1], g[2], f)
  \/ CreatePublish(1, FALSE)

SpecPages == InitList /\ [][NextPages]_vars

\* Records one event of a queue-triggered handler carries at most.
MaxRecords == 2

\* OWNER_EMAILS of the deployment: unset, one address, two addresses.
OwnerA == T(<<"o", "@", "w">>)
OwnerB == T(<<"p", "@", "w">>)
OwnerEnvs == {Undefined, JsStr(OwnerA), JsStr(OwnerA \o <<44>> \o OwnerB)}

\* The comments table of the listener: empty, or the comment c_a of P1.
\* The subscriptions table: no row, one row of P1, a row of P1 and one of
\* another photo, and more rows of P1 than one answer of the store holds.
NotifySubs ==
  {{}, SubsBefore, SubsBefore \cup {Row(P2, EmailOther)},
   {Row(P1, EmailLower), Row(P1, EmailOther), Row(P1, EmailBad)}}

\* Messages of the comment topic: the event of the stored comment, the
\* event of a comment that is not stored, an event of another type, a text
\* that is not JSON, and the JSON text null.
NotifyTexts ==
  {SnsMessage([photoId |-> P1, commentId |-> T(<<"c", "_", "a">>)]),
   SnsMessage([photoId |-> P1, commentId |-> T(<<"c", "_", "z">>)]),
   JsonStringify(JsObj(<< <<AttrType, JsStr(T(<<"x">>))>> >>)),
   T(<<"{", "x">>),
   T(<<"n", "u", "l", "l">>)}

\* Messages of the email topic: a message to one recipient, a message to
\* the empty recipient, a message whose "to" is a text, a text that is not
\* JSON, and the JSON text null.
DispatchTexts ==
  {EmailText([to |-> <<EmailLower>>]),
   EmailText([to |-> << <<>> >>]),
   JsonStringify(JsObj(<< <<AttrTo, JsStr(EmailLower)>> >>)),
   T(<<"{", "x">>),
   T(<<"n", "u", "l", "l">>)}

\* The events of at most MaxRecords records over the given messages.
Events(texts) == UNION {[1..n -> texts] : n \in 0..MaxRecords}

InitQueue ==
  /\ comments \in {{}, CommentsBefore}
  /\ subs \in NotifySubs
  /\ useRecaptcha = FALSE
  /\ topic = {} /\ lreq = ListIdle /\ trav = NoTraversal
  /\ cinv = [i \in 1..NumCreators |-> CreateIdle]
  /\ sinv = [i \in 1..NumSubscribers |-> SubIdle]
  /\ codec = CodecIdle /\ vinv = ValidatorIdle /\ kinv = ContactIdle
  /\ uinv = UnsubIdle /\ einv = EnvelopeIdle
  /\ ninv = NotifyIdle /\ dinv = DispatchIdle /\ emails = <<>>

\* The two queue-triggered handlers, one event each in a behaviour (they
\* share no state), while a subscription of the photo may be deleted.
NextQueue ==
  \/ \E env \in OwnerEnvs, recs \in Events(NotifyTexts) :
       dinv.pc = "idle" /\ NotifyStart(env, recs)
  \/ NotifyRecord
  \/ \E f \in BOOLEAN : NotifyList(f)
  \/ \E f \in BOOLEAN : NotifyGet(f)
  \/ \E f \in BOOLEAN : NotifyPublish(f)
  \/ /\ ninv.pc \in {"record", "list", "get", "publish"}
     /\ SubDeleteStart(1, DeleteEvent(JsStr(P1), JsStr(EmailOther)))
  \/ SubDelete(1, FALSE)
  \/ \E recs \in Events(DispatchTexts) : ninv.pc = "idle" /\ DispatchStart(recs)
  \/ \E f \in BOOLEAN : DispatchRecord(f)

SpecQueue == InitQueue /\ [][NextQueue]_vars

\* Invocations that one behaviour of the whole system starts at most.
MaxInvocations == 3

\* 1 for an invocation that has started.
Begun(r) == IF r.pc # "idle" THEN 1 ELSE 0

\* The invocations started so far, over all handlers.
Started ==
  Begun(lreq) + Begun(kinv) + Begun(uinv) + Begun(vinv) + Begun(ninv) + Begun(dinv)
  + Cardinality({i \in 1..NumCreators : cinv[i].pc # "idle"})
  + Cardinality({i \in 1..NumSubscribers : sinv[i].pc # "idle"})

MayStart == Started < MaxInvocations

InitSystem ==
  /\ comments \in {{}, CommentsBefore}
  /\ subs = SubsBefore
  /\ useRecaptcha = TRUE
  /\ topic = {} /\ lreq = ListIdle /\ trav = NoTraversal
  /\ cinv = [i \in 1..NumCreators |-> CreateIdle]
  /\ sinv = [i \in 1..NumSubscribers |-> SubIdle]
  /\ codec = CodecIdle /\ vinv = ValidatorIdle /\ kinv = ContactIdle
  /\ uinv = UnsubIdle /\ einv = EnvelopeIdle
  /\ ninv = NotifyIdle /\ dinv = DispatchIdle /\ emails = <<>>

\* Every handler of the system, their invocations interleaved step by
\* step: listing in both modes, comment creation, subscription create and
\* delete, unsubscribe, contact-us (both versions), the validator, and the
\* two listeners, which receive what was published to their topics.
NextSystem ==
  \/ MayStart /\ ListBFirst(EventB(JsStr(P1), JsStr(T(<<"1">>)), Undefined, Undefined))
  \/ ListBFollow(EventB(trav.photoId, trav.limit, trav.order, trav.next))
  \/ ListBPage(FALSE)
  \/ MayStart /\ ListAStart(EventA(JsStr(P1), Undefined, JsStr(T(<<"1">>)), Undefined))
  \/ ListAWalk(FALSE)
  \/ ListCount(FALSE)
  \/ \E i \in 1..NumCreators, c \in {"human", "not_human"} :
       /\ MayStart /\ Arrives(cinv, i)
       /\ CreateStart(i, CreateEvent(JsStr(P1), CommentBody(Al, Hi, Token)), c)
  \/ \E i \in 1..NumCreators, g \in Generated, f \in BOOLEAN : CreatePut(i, g[1], g[2], f)
  \/ \E i \in 1..NumCreators : CreatePublish(i, FALSE)
  \/ \E i \in 1..NumSubscribers :
       /\ MayStart /\ Arrives(sinv, i)
       /\ SubCreateStart(i, CreateEvent(JsStr(P1), SubBody(JsStr(EmailOther), Token)), "human")
  \/ \E i \in 1..NumSubscribers : SubCreatePut(i, FALSE)
  \/ \E i \in 1..NumSubscribers :
       /\ MayStart /\ Arrives(sinv, i)
       /\ SubDeleteStart(i, DeleteEvent(JsStr(P1), JsStr(EmailLower)))
  \/ \E i \in 1..NumSubscribers : SubDelete(i, FALSE)
  \/ MayStart /\ UnsubStart("plain", Undefined, DeleteEvent(JsStr(P1), JsStr(EmailLower)))
  \/ UnsubDelete(FALSE)
  \/ /\ MayStart
     /\ ContactStart(ContactBody(Al, Hi, JsStr(EmailLower), Undefined, Token), "human")
  \/ /\ MayStart
     /\ ContactStartEarlier(ContactBody(Al, Hi, JsStr(EmailLower), Undefined, Token), "human")
  \/ ContactPublish(TRUE, FALSE)
  \/ /\ MayStart
     /\ ValidatorHandle(ValidatorBody(Token), TRUE,
                        [kind |-> "response", data |-> UpstreamAnswer(TRUE, Undefined)])
  \/ ValidatorDeliver("answer")
  \/ \E e \in topic : MayStart /\ NotifyStart(JsStr(OwnerA), <<SnsMessage(e)>>)
  \/ NotifyRecord
  \/ NotifyList(FALSE)
  \/ \E f \in BOOLEAN : NotifyGet(f)
  \/ NotifyPublish(FALSE)
  \/ \E k \in 1..Len(emails) : MayStart /\ DispatchStart(<<EmailText(emails[k])>>)
  \/ \E f \in BOOLEAN : DispatchRecord(f)

SpecSystem == InitSystem /\ [][NextSystem]_vars

(***************************************************************************)
(* Properties                                                              *)
(***************************************************************************)
\* The requested photo's comments in the requested order, as the list
\* handlers return them.
FullList(photoId, order) ==
  mapItemsToComments(ScanOrder(Partition(comments, photoId), order = "asc"))

IsPrefix(a, b) == Len(a) <= Len(b) /\ a = SubSeq(b, 1, Len(a))

ListAnswered200 == lreq.pc = "done" /\ lreq.resp.statusCode = 200

\* C1: in a cursor traversal over a partition that has not changed since the
\* traversal began, the pages returned so far, concatenated, are the
\* beginning of the full ordered list of the photo's comments; every page
\* holds at most limit items; every page before the end is non-empty and
\* comes with a cursor; and once a response has hasNext = false the
\* concatenation is the full list.
C1_CursorTraversal ==
  (trav.active /\ ~trav.dirty) =>
    LET full == FullList(trav.photoId.v, parseOrder(OrElse(trav.order, JsStr(DefaultOrder))))
        got == Concat(trav.pages)
    IN /\ IsPrefix(got, full)
       /\ \A k \in 1..Len(trav.pages) : Len(trav.pages[k]) <= parseLimit(trav.limit)
       /\ (trav.pages # <<>> /\ ~trav.ended) =>
            (trav.pages[Len(trav.pages)] # <<>> /\ trav.next.t = "str" /\ trav.next.v # <<>>)
       /\ trav.ended => got = full

\* Three comments, limit 2: a page of two, then a page of one and the end.
C1_Witness ==
  /\ trav.active /\ ~trav.dirty /\ trav.ended
  /\ Cardinality(Partition(comments, P1)) = 3
  /\ Len(trav.pages) = 2 /\ Len(trav.pages[1]) = 2 /\ Len(trav.pages[2]) = 1

Min(a, b) == IF a <= b THEN a ELSE b

\* Positions (p-1)*s+1 .. min(p*s, n) of a list of n elements; empty when
\* (p-1)*s >= n.
Window(all, p, s) ==
  IF (p - 1) * s >= Len(all) THEN <<>>
  ELSE SubSeq(all, (p - 1) * s + 1, Min(p * s, Len(all)))

\* C2: in page-index mode over a partition that has not changed since the
\* request began, the page queryPage returned, and the elements of the 200
\* answer, are the comments at positions (p-1)*s+1 .. min(p*s, n) of the
\* partition in the requested order, and none when (p-1)*s >= n.
C2_PageWindow ==
  (lreq.mode = "A" /\ ~lreq.dirty) =>
    /\ lreq.pc = "count" =>
         mapItemsToComments(lreq.pageItems)
           = Window(FullList(lreq.photoId, lreq.order), lreq.pageIndex, lreq.limit)
    /\ ListAnswered200 =>
         lreq.resp.body.elements
           = Window(FullList(lreq.photoId, lreq.order), lreq.pageIndex, lreq.limit)

\* Instants 1 < 2 < 2b, page size 2, descending: page 2 holds the oldest.
C2_Witness ==
  /\ lreq.mode = "A" /\ ~lreq.dirty /\ ListAnswered200
  /\ Cardinality(Partition(comments, lreq.photoId)) = 3
  /\ lreq.pageIndex = 2 /\ lreq.limit = 2 /\ lreq.order = "desc"
  /\ Len(lreq.resp.body.elements) = 1
  /\ lreq.resp.body.elements[1].createdAt = T(<<"1">>)

\* C3: decoding the cursor of a store key gives the key back, and the
\* encoder returns undefined exactly when it is given no key.
C3_CursorRoundTrip ==
  /\ (codec.pc = "decoded" /\ codec.key \in CodecKeys) => codec.back = codec.key
  /\ (codec.pc = "encoded") => (codec.cursor = Undefined <=> codec.key \in {Undefined, Null})
  /\ (codec.pc = "encoded" /\ codec.cursor # Undefined) =>
       (codec.cursor.t = "str" /\ codec.cursor.v # <<>>)

\* A key with a four-byte character and quotes came back.
C3_Witness ==
  /\ codec.pc = "decoded"
  /\ codec.key = CommentKey([photoId |-> <<128512, 47>>, sk |-> <<34, 97, 34>>])
  /\ codec.back = codec.key

\* The first page of the request: what the store returns without start key.
FirstPage(r) ==
  mapItemsToComments(Query(comments, r.photoId, r.limit, Undefined, r.order = "asc", 0).Items)

\* C4: a cursor request whose cursor is empty or is not the encoding of a
\* store key is parsed to no start key, and - unless the store is
\* unavailable - it is answered 200 with the first page of the request.
C4_ForeignCursorFirstPage ==
  (lreq.mode = "B" /\ lreq.cursor \in ForeignCursors /\ lreq.store # "unavailable") =>
    /\ lreq.pc = "page" => lreq.startKey = Undefined
    /\ lreq.pc = "done" => lreq.resp.statusCode = 200
    /\ (ListAnswered200 /\ ~lreq.dirty) => lreq.resp.body.elements = FirstPage(lreq)

\* C5: in a 200 list answer over a partition that has not changed since the
\* request began, totalElements is the number of comments stored under the
\* requested photo.
C5_TotalElements ==
  (ListAnswered200 /\ ~lreq.dirty) =>
    lreq.resp.body.totalElements = Cardinality(Partition(comments, lreq.photoId))

\* More comments than one count query returns, and a comment of another
\* photo in the table.
C5_Witness ==
  /\ ListAnswered200 /\ ~lreq.dirty /\ lreq.mode = "A"
  /\ lreq.resp.body.totalElements > ScanCap
  /\ \E x \in comments : x.photoId # lreq.photoId

\* The least k with k * size >= total.
Ceiling(total, size) == CHOOSE k \in 0..total : k * size >= total /\ (k = 0 \/ (k - 1) * size < total)

\* C6: in a 200 list answer, totalPagesCount is the ceiling of
\* totalElements / effective page size, and 0 when totalElements is 0.
C6_TotalPagesCount ==
  ListAnswered200 =>
    /\ lreq.resp.body.totalPagesCount = Ceiling(lreq.resp.body.totalElements, lreq.limit)
    /\ lreq.resp.body.totalElements = 0 => lreq.resp.body.totalPagesCount = 0

\* Three comments in pages of two: two pages.
C6_Witness ==
  /\ ListAnswered200 /\ lreq.limit = 2
  /\ lreq.resp.body.totalElements = 3 /\ lreq.resp.body.totalPagesCount = 2

SubKey(i) == Row(sinv[i].photoId, sinv[i].email)

SubAnswers(kind, statusCode, key) ==
  {i \in 1..NumSubscribers :
     /\ sinv[i].pc = "done" /\ sinv[i].kind = kind
     /\ sinv[i].resp.statusCode = statusCode /\ SubKey(i) = key}

\* The step of a delete whose store call is answered: 200 with
\* unsubscribed = true, existed = whether the pair was stored just before,
\* the pair absent afterwards; the pair is the path's photoId and its email
\* unescaped, trimmed and lower-cased.
C7_DeleteStep ==
  \A i \in 1..NumSubscribers :
    SubDelete(i, FALSE) =>
      /\ sinv'[i].resp.statusCode = 200
      /\ sinv'[i].resp.body.unsubscribed
      /\ sinv'[i].resp.body.existed = (SubKey(i) \in subs)
      /\ SubKey(i) \notin subs'
      /\ sinv[i].email = ToLowerCase(Trim(decodeURIComponent(sinv[i].raw.v).val))

\* C7: in any sequence of subscription creations and deletions, a delete
\* whose store call is answered returns 200 with unsubscribed = true, reports
\* existed = true exactly when the normalised pair was stored immediately
\* before the call, and leaves the pair absent.
C7_IdempotentDelete == [][C7_DeleteStep]_vars

\* A pair created from one spelling is deleted through another spelling
\* (existed), deleted again (not existed), and is absent.
C7_Witness ==
  \E i, j, k \in 1..NumSubscribers :
    /\ i \in SubAnswers("create", 201, Row(P1, EmailLower))
    /\ sinv[i].raw = SubBody(JsStr(EmailUpper), Token)
    /\ j \in SubAnswers("delete", 200, Row(P1, EmailLower))
    /\ sinv[j].resp.body.existed
    /\ sinv[j].raw = JsStr(T(<<"a", "n", "%", "4", "0", "b", ".", "c">>))
    /\ k \in SubAnswers("delete", 200, Row(P1, EmailLower))
    /\ ~sinv[k].resp.body.existed
    /\ Row(P1, EmailLower) \notin subs

SameKey(a, b) == a.photoId = b.photoId /\ a.sk = b.sk

Created(i) == cinv[i].pc = "done" /\ cinv[i].resp.statusCode = 201

\* C8, the states: two creations answered 201 never wrote the same sort
\* key of the same photo; the comment of a 201 is stored as written; an
\* attempt that met its key in the table is answered 500.
C8_States ==
  /\ \A i, j \in 1..NumCreators :
       (i # j /\ Created(i) /\ Created(j)) => ~SameKey(cinv[i].comment, cinv[j].comment)
  /\ \A i \in 1..NumCreators :
       (cinv[i].store = "ok") => cinv[i].comment \in comments
  /\ \A i \in 1..NumCreators :
       (cinv[i].store = "conditional_check_failed") =>
         (cinv[i].pc = "done" /\ cinv[i].resp.statusCode = 500)

\* C8, the steps: a write whose key is in the table changes nothing and
\* reports the failed condition; a write whose key is not in the table
\* stores its comment.
C8_PutStep ==
  \A i \in 1..NumCreators, g \in Generated :
    CreatePut(i, g[1], g[2], FALSE) =>
      IF \E x \in comments : SameKey(x, NewComment(cinv[i].req, g[1], g[2]))
      THEN comments' = comments /\ cinv'[i].store = "conditional_check_failed"
      ELSE comments' = comments \cup {NewComment(cinv[i].req, g[1], g[2])}
           /\ cinv'[i].store = "ok"

\* C8: of the creations that generate one sort key for one photo, one write
\* succeeds and its comment is stored; the others fail their condition,
\* leave the stored comment as it is and are answered with a failure.
C8_OneWriteWins == []C8_States /\ [][C8_PutStep]_vars

\* Two creations with different contents generated the same key: the first
\* is answered 201 and stored, the second failed its condition.
C8_Witness ==
  \E i, j \in 1..NumCreators :
    /\ Created(i) /\ cinv[i].comment \in comments
    /\ cinv[j].store = "conditional_check_failed"
    /\ SameKey(cinv[i].comment, cinv[j].comment)
    /\ cinv[i].comment.content # cinv[j].comment.content

\* C9, the states: creations answered 201 for one pair are at most one more
\* than the deletions that removed the pair; a creation that met its pair
\* in the table is answered 500; no two rows differ only in the spelling
\* of the email.
C9_States ==
  /\ \A i \in 1..NumSubscribers :
       Cardinality(SubAnswers("create", 201, SubKey(i)))
         <= 1 + Cardinality({j \in SubAnswers("delete", 200, SubKey(i)) :
                               sinv[j].resp.body.existed})
  /\ \A i \in 1..NumSubscribers :
       (sinv[i].store = "conditional_check_failed") => sinv[i].resp.statusCode = 500
  /\ \A x, y \in subs :
       (x.photoId = y.photoId /\ ToLowerCase(Trim(x.email)) = ToLowerCase(Trim(y.email)))
         => x = y

\* C9, the steps: a creation is answered 201 only when its pair was not in
\* the table, and otherwise leaves the table as it is.
C9_PutStep ==
  \A i \in 1..NumSubscribers :
    SubCreatePut(i, FALSE) =>
      IF SubKey(i) \in subs
      THEN subs' = subs /\ sinv'[i].store = "conditional_check_failed"
      ELSE subs' = subs \cup {SubKey(i)} /\ sinv'[i].resp.statusCode = 201

\* C9: of the subscription creations for one photo whose emails are equal
\* after trimming and lower-casing, at most one is answered 201 while the
\* pair stays stored; the others fail their conditional write and are
\* answered with a failure; the table holds one row per pair.
C9_OneSubscription == []C9_States /\ [][C9_PutStep]_vars

\* Two spellings of one address: the first creation is answered 201, the
\* second failed its condition.
C9_Witness ==
  \E i, j \in 1..NumSubscribers :
    /\ i \in SubAnswers("create", 201, Row(P1, EmailLower))
    /\ sinv[i].raw = SubBody(JsStr(EmailUpper), Token)
    /\ j \in SubAnswers("create", 500, Row(P1, EmailLower))
    /\ sinv[j].raw = SubBody(JsStr(EmailLower), Token)
    /\ sinv[j].store = "conditional_check_failed"
    /\ subs = {Row(P1, EmailLower)}

\* C10: a creation whose write succeeded and whose publish failed is
\* answered 201 with the created comment, and the comment is stored.
C10_PublishBestEffort ==
  \A i \in 1..NumCreators :
    (cinv[i].published = "failed") =>
      /\ cinv[i].pc = "done"
      /\ cinv[i].resp.statusCode = 201
      /\ cinv[i].resp.body = mapItemsToComments(<<cinv[i].comment>>)[1]
      /\ cinv[i].comment \in comments

\* A publish failed: 201, the comment stored, no message on the topic.
C10_Witness ==
  \E i \in 1..NumCreators :
    /\ cinv[i].published = "failed"
    /\ cinv[i].resp.statusCode = 201
    /\ cinv[i].comment \in comments
    /\ topic = {}


\* Values JSON represents: no undefined inside.
RECURSIVE IsJson(_)
IsJson(x) ==
  CASE x.t = "undefined" -> FALSE
    [] x.t = "obj" -> \A k \in 1..Len(x.v) : IsJson(x.v[k][2])
    [] x.t = "arr" -> \A k \in 1..Len(x.v) : IsJson(x.v[k])
    [] OTHER -> TRUE

\* The body of an answer, deserialized.
Deserialized(r) == IF r.body.t = "str" THEN JsonParse(r.body.v) ELSE ParseFail

\* C14: success and failure return the given status code and a body whose
\* JSON text deserializes to the payload (for failure exactly the object
\* {errorCode, message}); the content-type header is application/json, and
\* the functions that take the lambda and gateway request ids return them
\* unchanged as x-lambda-request-id and x-apigw-request-id.  Payloads are
\* the values JSON represents.
C14_Envelope ==
  einv.pc = "done" =>
    /\ einv.resp.statusCode = einv.statusCode
    /\ einv.resp.headers["content-type"] = JsStr(ApplicationJson)
    /\ IsJson(einv.payload) =>
         /\ Deserialized(einv.resp).ok
         /\ Deserialized(einv.resp).val = einv.payload
    /\ einv.fn \in {"failure", "failureNoIds"} =>
         /\ Deserialized(einv.resp).val.t = "obj"
         /\ [k \in 1..Len(Deserialized(einv.resp).val.v) |-> Deserialized(einv.resp).val.v[k][1]]
              = <<AttrErrorCode, AttrMessage>>
    /\ einv.fn \in {"success", "failure"} =>
         /\ einv.resp.headers["x-lambda-request-id"] = einv.lambdaRequestId
         /\ einv.resp.headers["x-apigw-request-id"] = einv.apiGwRequestId

\* failure(400, "validation_failed", "x", ids) has answered with a body
\* that reads back as {errorCode: "validation_failed", message: "x"}.
C14_Witness ==
  /\ einv.pc = "done" /\ einv.fn = "failure" /\ einv.statusCode = 400
  /\ einv.resp.statusCode = 400
  /\ Deserialized(einv.resp).val =
       JsObj(<< <<AttrErrorCode, JsStr(T(<<"v", "a", "l", "i", "d", "a", "t", "i", "o", "n", "_", "f", "a", "i", "l", "e", "d">>))>>, <<AttrMessage, JsStr(T(<<"x">>))>> >>)
  /\ einv.resp.headers["x-lambda-request-id"] = JsStr(T(<<"L", "1">>))


\* The validator's answer, deserialized, and its reason.
ValidatorAnswer == Deserialized(vinv.resp).val
ValidatorReason == GetOptional(ValidatorAnswer, AttrReason)

\* The error codes of the upstream answer the validator classified (empty
\* when there was none, or when the answer verified the token).
ClassifiedCodes ==
  IF vinv.upstream.kind = "response"
     /\ ~Truthy(GetOptional(vinv.upstream.data, AttrSuccess))
     /\ GetOptional(vinv.upstream.data, AttrUpstreamCodes).t = "arr"
  THEN CodeSet(GetOptional(vinv.upstream.data, AttrUpstreamCodes))
  ELSE {}

SecretCodes == {T(<<"m", "i", "s", "s", "i", "n", "g", "-", "i", "n", "p", "u", "t", "-", "s", "e", "c", "r", "e", "t">>), T(<<"i", "n", "v", "a", "l", "i", "d", "-", "i", "n", "p", "u", "t", "-", "s", "e", "c", "r", "e", "t">>)}
KnownCodes ==
  SecretCodes \cup {T(<<"m", "i", "s", "s", "i", "n", "g", "-", "i", "n", "p", "u", "t", "-", "r", "e", "s", "p", "o", "n", "s", "e">>), T(<<"i", "n", "v", "a", "l", "i", "d", "-", "i", "n", "p", "u", "t", "-", "r", "e", "s", "p", "o", "n", "s", "e">>),
                    T(<<"b", "a", "d", "-", "r", "e", "q", "u", "e", "s", "t">>), T(<<"t", "i", "m", "e", "o", "u", "t", "-", "o", "r", "-", "d", "u", "p", "l", "i", "c", "a", "t", "e">>)}

\* C11: the captcha-validator answers an upstream timeout with 504
\* network-error, another network failure with 502 network-error, an
\* upstream answer carrying invalid-input-response with 400 invalid, one
\* carrying timeout-or-duplicate with 400 expired, and one carrying a secret
\* error or an unknown code with a 5xx server-error.
C11_ValidatorSplit ==
  vinv.pc = "done" =>
    /\ vinv.upstream.kind = "timeout" =>
         vinv.resp.statusCode = 504 /\ ValidatorReason = JsStr(T(<<"n", "e", "t", "w", "o", "r", "k", "-", "e", "r", "r", "o", "r">>))
    /\ vinv.upstream.kind = "network" =>
         vinv.resp.statusCode = 502 /\ ValidatorReason = JsStr(T(<<"n", "e", "t", "w", "o", "r", "k", "-", "e", "r", "r", "o", "r">>))
    /\ T(<<"i", "n", "v", "a", "l", "i", "d", "-", "i", "n", "p", "u", "t", "-", "r", "e", "s", "p", "o", "n", "s", "e">>) \in ClassifiedCodes =>
         vinv.resp.statusCode = 400 /\ ValidatorReason = JsStr(T(<<"i", "n", "v", "a", "l", "i", "d">>))
    /\ T(<<"t", "i", "m", "e", "o", "u", "t", "-", "o", "r", "-", "d", "u", "p", "l", "i", "c", "a", "t", "e">>) \in ClassifiedCodes =>
         vinv.resp.statusCode = 400 /\ ValidatorReason = JsStr(T(<<"e", "x", "p", "i", "r", "e", "d">>))
    /\ (ClassifiedCodes \cap SecretCodes # {} \/ ClassifiedCodes \ KnownCodes # {}) =>
         vinv.resp.statusCode >= 500 /\ ValidatorReason = JsStr(T(<<"s", "e", "r", "v", "e", "r", "-", "e", "r", "r", "o", "r">>))

\* The same for upstream answers that carry one error code.
C11_OneCode == Cardinality(ClassifiedCodes) <= 1 => C11_ValidatorSplit


\* An answer with the given status and error code.
Fails(r, statusCode, errorCode) == r.statusCode = statusCode /\ r.body.errorCode = errorCode

\* The invocations of the gating handlers that asked the validator.
GatedInvocations ==
  {g \in {[handler |-> "comment-creation", pc |-> cinv[1].pc, resp |-> cinv[1].resp,
            validator |-> cinv[1].validator],
           [handler |-> "subscription-create", pc |-> sinv[1].pc, resp |-> sinv[1].resp,
            validator |-> sinv[1].validator],
           [handler |-> "contact-us-" \o kinv.version, pc |-> kinv.pc, resp |-> kinv.resp,
            validator |-> kinv.validator]} : g.validator # "none"}

\* The verification was made and failed for a reason the client can fix:
\* the validator's answer has status 400 and reached the handler.
ClientFixable == vinv.delivery = "answer" /\ vinv.resp.statusCode = 400

\* The verification could not be made: the validator answered 5xx, or the
\* invocation failed, or gave no answer, or one that cannot be parsed.
NotPerformed ==
  \/ vinv.delivery \in {"threw", "function_error", "empty", "garbled"}
  \/ vinv.delivery = "answer" /\ vinv.resp.statusCode >= 500

KeepsSplit(g) ==
  /\ ClientFixable => g.pc = "done" /\ Fails(g.resp, 403, "captcha_failed")
  /\ NotPerformed => g.pc = "done" /\ Fails(g.resp, 503, "captcha_unavailable")

\* C12: every handler that gates on CAPTCHA answers 403 captcha_failed when
\* the validator answered 400, and 503 captcha_unavailable when the
\* verification could not be performed (validator 5xx, failed invocation,
\* empty or unparsable answer).
C12_GateSplit == \A g \in GatedInvocations : KeepsSplit(g)

\* The same for the handlers that call the shared validateRecaptcha.
C12_SharedValidator ==
  \A g \in GatedInvocations :
    g.handler \in {"subscription-create", "contact-us-current"} => KeepsSplit(g)


\* The answers of the handlers that have answered, all of them envelopes
\* of the abstract form [statusCode, body].
HandlerAnswers ==
  {r \in {cinv[1].resp, sinv[1].resp, kinv.resp, lreq.resp} : r.statusCode >= 400}
  \cup (IF uinv.resp.statusCode >= 400 THEN {[statusCode |-> uinv.resp.statusCode, body |-> uinv.resp.body]} ELSE {})

\* The status code the spec gives each error code.
StatusOf(errorCode) ==
  CASE errorCode \in {"validation_failed", "missing_recaptcha_token"} -> 400
    [] errorCode \in {"captcha_failed", "bad_captcha"} -> 403
    [] errorCode = "captcha_unavailable" -> 503
    [] errorCode = "internal_service_error" -> 500
    [] OTHER -> 0

\* C13: in every failure response of an HTTP handler the errorCode
\* determines the status code: validation_failed and
\* missing_recaptcha_token come with 400, captcha_failed and bad_captcha
\* with 403, captcha_unavailable with 503, internal_service_error with 500.
C13_Taxonomy == \A r \in HandlerAnswers : r.statusCode = StatusOf(r.body.errorCode)

\* The same without the earlier contact-us handler.
C13_CurrentHandlers == kinv.version # "earlier" => C13_Taxonomy


\* photoId or email is missing, or the email cannot be decoded or is
\* blank.
UnsubInputBad ==
  \/ ~Truthy(uinv.raw.photoId)
  \/ ~Truthy(uinv.raw.email)
  \/ ~decodeURIComponent(uinv.raw.email.v).ok
  \/ Trim(decodeURIComponent(uinv.raw.email.v).val) = <<>>

\* The answer is a redirect to the page, with nothing in the body.
RedirectsTo(page) ==
  /\ uinv.resp.statusCode = 302
  /\ uinv.resp.body = JsStr(<<>>)
  /\ uinv.resp.location.page = page

\* C15: an unsubscribe request with method GET, or without a method,
\* is answered 302 with an empty body: to the status=ok page after the
\* delete call returned, to status=error&code=validation_failed for a
\* missing or undecodable photoId or email, without a store call, and to
\* status=error&code=internal_service_error when the store call failed.
\* With another method (DELETE) the same outcomes are the JSON answers 200,
\* 400 validation_failed and 500 internal_service_error.
C15_UnsubscribeAnswers ==
  uinv.pc = "done" =>
    /\ UnsubInputBad => uinv.store = "none"
    /\ ~UnsubInputBad => uinv.store \in {"ok", "unavailable"}
    /\ IF uinv.method = MethodGet
       THEN CASE UnsubInputBad -> RedirectsTo("/unsubscribe?status=error&code=validation_failed")
              [] uinv.store = "ok" -> RedirectsTo("/unsubscribe?status=ok")
              [] OTHER -> RedirectsTo("/unsubscribe?status=error&code=internal_service_error")
       ELSE CASE UnsubInputBad -> Fails(uinv.resp, 400, "validation_failed")
              [] uinv.store = "ok" ->
                   /\ uinv.resp.statusCode = 200
                   /\ uinv.resp.body = [photoId |-> uinv.photoId, email |-> uinv.email,
                                        unsubscribed |-> TRUE]
              [] OTHER -> Fails(uinv.resp, 500, "internal_service_error")

\* A request with method GET (given, or taken for an absent one) and with
\* an email that cannot be decoded was redirected to the validation_failed
\* page without a store call.
C15_Witness ==
  /\ uinv.pc = "done" /\ uinv.method = MethodGet /\ uinv.store = "none"
  /\ Truthy(uinv.raw.photoId) /\ Truthy(uinv.raw.email)
  /\ ~decodeURIComponent(uinv.raw.email.v).ok
  /\ RedirectsTo("/unsubscribe?status=error&code=validation_failed")


ValidationFailed(r) == Fails(r, 400, "validation_failed")

\* The answers of the handlers in a state, by handler.
AnswerOf ==
  [h \in {"list", "create", "subscribe", "contact", "unsubscribe"} |->
     CASE h = "list" -> lreq.resp
       [] h = "create" -> cinv[1].resp
       [] h = "subscribe" -> sinv[1].resp
       [] h = "contact" -> kinv.resp
       [] OTHER -> [statusCode |-> uinv.resp.statusCode, body |-> uinv.resp.body]]

\* An invocation that answered 400 validation_failed made no store call,
\* no publish and no validator invocation.
C16_States ==
  /\ ValidationFailed(lreq.resp) =>
       lreq.asked = 0 /\ lreq.counted = 0 /\ lreq.store = "none"
  /\ ValidationFailed(cinv[1].resp) =>
       cinv[1].store = "none" /\ cinv[1].validator = "none" /\ cinv[1].published = "none"
  /\ ValidationFailed(sinv[1].resp) =>
       sinv[1].store = "none" /\ sinv[1].validator = "none"
  /\ ValidationFailed(kinv.resp) => kinv.validator = "none" /\ kinv.published = "none"
  /\ ValidationFailed(AnswerOf["unsubscribe"]) => uinv.store = "none"

\* The step in which a handler answers 400 validation_failed leaves the
\* tables and the topic as they were.
C16_Step ==
  (\E h \in DOMAIN AnswerOf : ~ValidationFailed(AnswerOf[h]) /\ ValidationFailed(AnswerOf[h])')
    => UNCHANGED <<comments, subs, topic, ninv, dinv, emails>>

\* C16: a handler (comment list, comment creation, subscription create and
\* delete, contact-us) that answers 400 validation_failed has issued no
\* store read or write, no publish and no validator invocation, and the
\* stored comments and subscriptions are unchanged.
C16_NoSideEffects == []C16_States /\ [][C16_Step]_vars

\* A comment creation with a token and a bad author name was answered 400
\* validation_failed while CAPTCHA is on and comments are stored.
C16_Witness ==
  /\ ValidationFailed(cinv[1].resp) /\ cinv[1].pc = "done"
  /\ useRecaptcha /\ comments # {} /\ subs # {}
  /\ cinv[1].store = "none" /\ cinv[1].validator = "none"


\* The body is missing, is not JSON, or is JSON without one of the
\* required fields.
LacksField(parsed, required) == \E f \in required : GetOptional(parsed, f).t = "undefined"

Malformed(body, required) ==
  \/ ~Truthy(body)
  \/ ~JsonParse(body.v).ok
  \/ LacksField(JsonParse(body.v).val, required)

\* The invocations that have answered a request with a malformed body, as
\* [handler, statusCode].
MalformedAnswers ==
  {a \in {[handler |-> "contact-us", done |-> kinv.pc = "done", statusCode |-> kinv.resp.statusCode,
           bad |-> Malformed(kinv.body, {AttrName, AttrSurname, AttrMessage})],
          [handler |-> "comment-creation", done |-> cinv[1].pc = "done",
           statusCode |-> cinv[1].resp.statusCode,
           bad |-> Malformed(cinv[1].raw, {AttrAuthorName, AttrContent})],
          [handler |-> "subscription-create",
           done |-> sinv[1].pc = "done" /\ sinv[1].kind = "create",
           statusCode |-> sinv[1].resp.statusCode,
           bad |-> Malformed(sinv[1].raw, {AttrEmail})],
          [handler |-> "captcha-validator", done |-> vinv.pc = "done" /\ Quiet,
           statusCode |-> vinv.resp.statusCode,
           bad |-> Malformed(vinv.body, {T(<<"t", "o", "k", "e", "n">>)})]} :
     a.done /\ a.bad}

\* C17: contact-us, comment creation, subscription create and the
\* captcha-validator answer a request whose body is missing, is not valid
\* JSON, or lacks a required field with status 400.
C17_MalformedIs400 == \A a \in MalformedAnswers : a.statusCode = 400

\* The same for the captcha-validator alone.
C17_Validator ==
  \A a \in MalformedAnswers : a.handler = "captcha-validator" => a.statusCode = 400


\* A query of the list request failed: the store was unavailable, or it
\* refused the query.
ListQueryFailed == lreq.store \notin {"none", "ok"}

\* After a failed query the request is answered 500 internal_service_error;
\* a cursor request sends at most one page query and a page-index request
\* at most one walk query for each page up to the asked one.
C18_States ==
  /\ ListQueryFailed => lreq.pc = "done" /\ Fails(lreq.resp, 500, "internal_service_error")
  /\ lreq.mode = "B" => lreq.asked <= 1
  /\ lreq.mode = "A" => lreq.asked <= lreq.pageIndex

\* No step sends a query for a request one of whose queries has failed
\* (the counters only fall back to zero, with the next request).
C18_Step ==
  ListQueryFailed => lreq'.asked + lreq'.counted <= lreq.asked + lreq.counted

\* C18: if a page query or a count query of a list request fails, the
\* handler answers 500 internal_service_error, sends no further query and
\* does not send the failed query again.
C18_StoreFailure == []C18_States /\ [][C18_Step]_vars

\* The second count query of a cursor request failed and the request was
\* answered 500.
C18_Witness ==
  /\ lreq.pc = "done" /\ lreq.mode = "B" /\ lreq.store = "unavailable"
  /\ lreq.asked = 1 /\ lreq.counted = 2
  /\ Fails(lreq.resp, 500, "internal_service_error")


\* A cursor request that passed validation; trav.limit is the limit
\* parameter as the client sent it, lreq.limit the Limit of the page query.
LimitAccepted == lreq.mode = "B" /\ lreq.pc \in {"page", "count", "done"} /\ trav.active

Clamped(n) == IF n < 1 THEN 1 ELSE IF n > MaxLimit THEN MaxLimit ELSE n

\* C19: the Limit of the page query is an integer in [1, 1000]: a
\* requested limit below 1 is raised to 1, one above 1000 is lowered to
\* 1000, one inside the range is used unchanged, and an absent or
\* non-numeric limit takes the configured default.
C19_LimitClamped ==
  LimitAccepted =>
    /\ lreq.limit \in 1..MaxLimit
    /\ \A n \in LimitNumbers : trav.limit = LimitParameter(n) => lreq.limit = Clamped(n)
    /\ trav.limit \in LimitsNotNumeric => lreq.limit = DefaultLimit

\* The same for requested limits of at least 1, and the range for all.
C19_FromOne ==
  LimitAccepted =>
    /\ lreq.limit \in 1..MaxLimit
    /\ \A n \in LimitNumbers :
         (n >= 1 /\ trav.limit = LimitParameter(n)) => lreq.limit = Clamped(n)
    /\ \A n \in LimitNumbers :
         (n < 1 /\ trav.limit = LimitParameter(n)) => lreq.limit = DefaultLimit
    /\ trav.limit \in LimitsNotNumeric => lreq.limit = DefaultLimit


\* C20: a cursor-mode list request sends exactly one page query (and the
\* count queries), started at the decoded cursor; in its 200 answer
\* hasNext is true exactly when a cursor is returned, which is exactly when
\* the store returned a continuation key for the page query, and the
\* cursor is the encoding of that key.
C20_OnePageQuery ==
  lreq.mode = "B" =>
    /\ lreq.asked <= 1
    /\ lreq.pc \in {"page", "count", "done"} /\ lreq.resp.statusCode # 400 =>
         lreq.startKey = decodeCursor(lreq.cursor)
    /\ ListAnswered200 =>
         /\ lreq.asked = 1 /\ lreq.counted >= 1
         /\ lreq.resp.body.hasNext <=> lreq.resp.body.cursor # Undefined
         /\ lreq.resp.body.hasNext <=> Truthy(lreq.lastKey)
         /\ lreq.resp.body.cursor = encodeCursor(lreq.lastKey)
         /\ lreq.resp.body.hasNext =>
              decodeCursor(lreq.resp.body.cursor) = lreq.lastKey

\* A request that came with a cursor was answered 200 with hasNext and the
\* next cursor, after one page query.
C20_Witness ==
  /\ ListAnswered200 /\ lreq.mode = "B" /\ Truthy(lreq.cursor)
  /\ lreq.asked = 1
  /\ lreq.resp.body.hasNext /\ lreq.resp.body.cursor # Undefined
  /\ lreq.resp.body.cursor # lreq.cursor


\* The list request and the traversal it belongs to saw no write to the
\* photo's partition.
ListClean == ~lreq.dirty /\ (trav.active => ~trav.dirty)

\* The number of comments of the full ordered list up to the end of the
\* returned page: pageIndex pages in page-index mode, the pages of the
\* traversal so far in cursor mode (the first page for a lone request).
ThroughPage ==
  IF lreq.mode = "A" THEN lreq.pageIndex * lreq.limit
  ELSE IF trav.active THEN Len(Concat(trav.pages))
  ELSE Len(lreq.resp.body.elements)

\* At least one comment lies beyond the returned page.
MoreBeyond == Len(FullList(lreq.photoId, lreq.order)) > ThroughPage

\* C21: in a 200 list answer of either mode over an unchanged partition,
\* hasNext is true if and only if at least one comment lies beyond the
\* returned page in the requested order; in particular the page that
\* contains the last comment has hasNext = false.
C21_HasNextIffMore ==
  (ListAnswered200 /\ ListClean) => (lreq.resp.body.hasNext <=> MoreBeyond)

\* What holds: hasNext is true whenever a comment lies beyond the page, a
\* page-index request beyond the end is empty with hasNext = false, and
\* hasNext is true without a comment beyond only for a page filled to the
\* Limit that ends the partition.
C21_NeverMissesNext ==
  (ListAnswered200 /\ ListClean) =>
    /\ MoreBeyond => lreq.resp.body.hasNext
    /\ (lreq.mode = "A"
        /\ (lreq.pageIndex - 1) * lreq.limit >= Len(FullList(lreq.photoId, lreq.order))) =>
         (lreq.resp.body.elements = <<>> /\ ~lreq.resp.body.hasNext)
    /\ (lreq.resp.body.hasNext /\ ~MoreBeyond) =>
         (Len(lreq.resp.body.elements) = lreq.limit
          /\ Len(FullList(lreq.photoId, lreq.order)) = ThroughPage)


\* Invocation i publishes in this step.
Publishes(i) == cinv[i].pc = "publish" /\ cinv'[i].pc = "done"

\* An invocation that was answered without a 201, or is not yet past its
\* write, has published nothing; one that has published did so after its
\* own write stored its comment.
C22_States ==
  \A i \in 1..NumCreators :
    /\ cinv[i].pc \in {"idle", "put", "publish"} => cinv[i].published = "none"
    /\ (cinv[i].pc = "done" /\ cinv[i].resp.statusCode # 201) =>
         /\ cinv[i].published = "none"
         /\ (CommentEvent(cinv[i].comment) \in topic =>
               \E j \in 1..NumCreators :
                 j # i /\ cinv[j].published = "sent"
                 /\ CommentEvent(cinv[j].comment) = CommentEvent(cinv[i].comment))
    /\ cinv[i].published # "none" =>
         (cinv[i].store = "ok" /\ cinv[i].comment \in comments)
    /\ cinv[i].published = "sent" => CommentEvent(cinv[i].comment) \in topic
    /\ \A e \in topic :
         /\ e.type = "comment-created"
         /\ \E x \in comments : e.photoId = x.photoId /\ e.commentId = x.commentId

\* The publish of an invocation happens once, from "publish", and the
\* topic takes only the event of the comment that invocation wrote.
C22_Step ==
  /\ \A i \in 1..NumCreators :
       cinv'[i].published # cinv[i].published =>
         (cinv[i].published = "none" /\ Publishes(i))
  /\ topic' # topic =>
       \E i \in 1..NumCreators :
         /\ Publishes(i) /\ cinv'[i].published = "sent"
         /\ cinv[i].comment \in comments
         /\ topic' = topic \cup
              {[type |-> "comment-created", photoId |-> cinv[i].comment.photoId,
                commentId |-> cinv[i].comment.commentId]}
         /\ \A j \in 1..NumCreators : j # i => cinv'[j] = cinv[j]

\* C22: every comment-creation invocation publishes at most one
\* comment-created event, only after its conditional write succeeded and
\* with that comment's photoId and commentId, and none when validation,
\* the CAPTCHA check or the write fails.
C22_AtMostOnceAfterWrite == []C22_States /\ [][C22_Step]_vars

\* Two invocations: one wrote and published its event, the other failed
\* its write (or was refused) and published none.
C22_Witness ==
  \E i, j \in 1..NumCreators :
    /\ cinv[i].pc = "done" /\ cinv[i].published = "sent"
    /\ cinv[i].resp.statusCode = 201
    /\ topic = {CommentEvent(cinv[i].comment)}
    /\ cinv[j].pc = "done" /\ cinv[j].store = "conditional_check_failed"
    /\ cinv[j].published = "none"


\* The client has the answers of pageIndex 1 and pageIndex 2, and no
\* comment was written while the second request ran.
TwoPages ==
  /\ lreq.mode = "A" /\ ListAnswered200 /\ ~lreq.dirty
  /\ trav.active /\ Len(trav.pages) = 2

\* The comments of the photo that are stored now, were not returned on
\* page 1, and come before the last comment of page 1 in the requested
\* order: the comments created since page 1 was read that sort before it.
CameBefore ==
  LET page1 == trav.pages[1]
      last == page1[Len(page1)]
      full == FullList(lreq.photoId, lreq.order)
  IN {k \in 1..Len(full) :
        /\ \A j \in 1..Len(page1) : page1[j] # full[k]
        /\ \E m \in (k + 1)..Len(full) : full[m] = last}

InPage(c, page) == \E k \in 1..Len(page) : page[k] = c

\* C23: after a full page 1, comments created before the pageIndex=2
\* request that sort before the end of page 1 (in descending order, newer
\* comments) push the end of page 1 onto page 2: with between one and
\* pageSize such comments, the last comment of page 1 is returned again on
\* page 2; with none the two pages share no comment.
C23_PageIndexDrift ==
  (TwoPages /\ Len(trav.pages[1]) = lreq.limit) =>
    LET page1 == trav.pages[1]
        page2 == trav.pages[2]
    IN /\ Cardinality(CameBefore) \in 1..lreq.limit =>
            InPage(page1[Len(page1)], page2)
       /\ CameBefore = {} =>
            \A k \in 1..Len(page1) : ~InPage(page1[k], page2)

\* Descending order, page size 1: page 1 returned the only comment, a newer
\* comment was created, and page 2 returned the same comment again.
C23_Witness ==
  /\ TwoPages /\ lreq.order = "desc" /\ lreq.limit = 1
  /\ trav.dirty
  /\ Cardinality(Partition(comments, lreq.photoId)) = 2
  /\ trav.pages[1] = trav.pages[2] /\ Len(trav.pages[1]) = 1
  /\ cinv[1].pc = "done" /\ cinv[1].resp.statusCode = 201
  /\ LexLess(trav.pages[1][1].createdAt, cinv[1].comment.createdAt)


\* The contact-us invocation takes its publish step.
ContactPublishes == kinv.pc = "publish" /\ kinv'.pc = "done"

\* An answer 200 stands on an acknowledged publish whose message is on the
\* email topic; a failed publish, or none, is never answered 200.
C25_States ==
  /\ kinv.pc \in {"idle", "publish"} => kinv.published = "none"
  /\ (kinv.pc = "done" /\ kinv.resp.statusCode = 200) =>
       /\ kinv.published = "sent"
       /\ \E k \in 1..Len(emails) : emails[k] = ContactMessage(ToEmail, kinv.body)
  /\ kinv.published = "failed" => Fails(kinv.resp, 500, "internal_service_error")
  /\ (kinv.pc = "done" /\ kinv.published # "sent") =>
       \A k \in 1..Len(emails) : emails[k].type # "contact-us"

\* The publish is attempted in one step only, once; that step answers 200
\* exactly when the topic acknowledged, and 500 internal_service_error
\* when the send failed or no topic is configured.
C25_Step ==
  /\ kinv'.published # kinv.published => (ContactPublishes /\ kinv.published = "none")
  /\ emails' # emails => (ContactPublishes /\ kinv'.published = "sent"
                          /\ emails' = Append(emails, ContactMessage(ToEmail, kinv.body)))
  /\ ContactPublishes =>
       /\ kinv'.resp.statusCode = 200 <=> kinv'.published = "sent"
       /\ kinv'.published = "sent" <=> Len(emails') = Len(emails) + 1
       /\ kinv'.published # "sent" => Fails(kinv'.resp, 500, "internal_service_error")

\* C25: contact-us answers 200 only after the publish of the contact
\* message to the email topic was acknowledged; the publish is attempted at
\* most once per invocation, and when it fails or the topic is not
\* configured the answer is 500 internal_service_error.
C25_ContactPublish == []C25_States /\ [][C25_Step]_vars

\* A publish that failed was answered 500 and left the topic empty.
C25_Witness ==
  /\ kinv.pc = "done" /\ kinv.version = "current" /\ kinv.published = "failed"
  /\ Fails(kinv.resp, 500, "internal_service_error")
  /\ emails = <<>>


\* C26: in every 200 list answer of either mode, also when comments were
\* created while the request ran, the number of returned elements is at
\* most totalElements.
C26_ElementsWithinTotal ==
  ListAnswered200 => Len(lreq.resp.body.elements) <= lreq.resp.body.totalElements

\* A comment was created between the page fetch and the count: the first
\* page of limit 2 holds the one comment there was, the total is 2.
C26_Witness ==
  /\ ListAnswered200 /\ lreq.dirty
  /\ lreq.mode = "B" /\ lreq.cursor = Undefined /\ lreq.limit = 2
  /\ Len(lreq.resp.body.elements) = 1
  /\ lreq.resp.body.totalElements = 2
  /\ \E i \in 1..NumCreators : cinv[i].store = "ok"

\* The comments of the traversal's pages, one after the other.
Traversed == Concat(trav.pages)

\* C27: the pages of a cursor traversal, also when comments are created on
\* the photo meanwhile, never hold the same comment twice; and once a
\* response has hasNext = false every comment stored before the
\* traversal's first request has been returned exactly once.
C27_TraversalUnderInserts ==
  (trav.active /\ lreq.mode = "B") =>
    /\ \A a, b \in 1..Len(Traversed) : a # b => Traversed[a] # Traversed[b]
    /\ trav.ended =>
         \A x \in trav.stored :
           Cardinality({k \in 1..Len(Traversed) :
                          Traversed[k] = mapItemsToComments(<<x>>)[1]}) = 1

\* A traversal of two pages ended; a comment created after its first page
\* was read is not among the comments stored before, which all came back.
C27_Witness ==
  /\ trav.active /\ lreq.mode = "B" /\ trav.ended /\ trav.dirty
  /\ Len(trav.pages) = 2
  /\ Cardinality(trav.stored) = 2
  /\ Cardinality(Partition(comments, P1)) > Cardinality(trav.stored)



\* The validator was invoked, answered 200 with success = true, and the
\* answer reached the handler.
Human ==
  /\ vinv.pc = "delivered" /\ vinv.delivery = "answer"
  /\ vinv.resp.statusCode = 200
  /\ GetOptional(ValidatorAnswer, AttrSuccess) = JsBool(TRUE)

\* The invocations of the three gated operations, with what they did: acted
\* is the store write or the publish having been reached, effect is its
\* having succeeded.
Gates ==
  {[handler |-> "comment-creation", pc |-> cinv[1].pc, resp |-> cinv[1].resp,
    validator |-> cinv[1].validator, raw |-> cinv[1].raw,
    acted |-> cinv[1].pc \in {"put", "publish"} \/ cinv[1].store # "none",
    effect |-> cinv[1].store = "ok" \/ cinv[1].published # "none"],
   [handler |-> "subscription-create", pc |-> sinv[1].pc, resp |-> sinv[1].resp,
    validator |-> sinv[1].validator, raw |-> sinv[1].raw,
    acted |-> sinv[1].kind = "create" /\ (sinv[1].pc = "put" \/ sinv[1].store # "none"),
    effect |-> sinv[1].kind = "create" /\ sinv[1].store = "ok"],
   [handler |-> "contact-us-" \o kinv.version, pc |-> kinv.pc, resp |-> kinv.resp,
    validator |-> kinv.validator, raw |-> kinv.body,
    acted |-> kinv.pc = "publish" \/ kinv.published # "none",
    effect |-> kinv.published = "sent"]}

\* The gated operations of the claim: the earlier contact-us copy answers a
\* missing token with another error code and is left out.
ClaimedGates ==
  {g \in Gates : g.handler \in {"comment-creation", "subscription-create", "contact-us-current"}
                 /\ (g.handler = "subscription-create" => sinv[1].kind \in {"none", "create"})}

\* The request body carries no (truthy) recaptchaToken.
NoToken(raw) ==
  \/ ~Truthy(raw)
  \/ ~JsonParse(raw.v).ok
  \/ ~Truthy(GetOptional(JsonParse(raw.v).val, AttrToken))

\* Nothing was written to the tables, the topic or the email queue.
NothingDone ==
  /\ comments \in {{}, CommentsBefore}
  /\ subs \in {{}, SubsBefore}
  /\ topic = {} /\ emails = <<>>

\* The store or the publish is reached only after the validator's 200 with
\* success = true, and a non-human verdict leaves everything as it was.
OnlyHumansPass(g) ==
  /\ g.acted => Human /\ g.validator = "human" /\ ~NoToken(g.raw)
  /\ g.effect => Human
  /\ g.validator \notin {"none", "human"} => ~g.acted /\ ~g.effect /\ NothingDone

\* An answered request without a token got 400 missing_recaptcha_token and
\* the validator was not invoked.
RefusedUnasked(g) ==
  Fails(g.resp, 400, "missing_recaptcha_token") /\ g.validator = "none" /\ ~g.acted

\* The request was refused before the gate: by validation, or by the catch
\* for a body that is not JSON or parses to null.
RefusedByValidation(g) ==
  /\ ValidationFailed(g.resp) \/ Fails(g.resp, 500, "internal_service_error")
  /\ g.validator = "none" /\ ~g.acted

\* C28 as stated: with the CAPTCHA gate enabled, subscription-create,
\* contact-us and comment-creation store or publish only after the validator
\* returned 200 with success = true; a request without a token is answered
\* 400 missing_recaptcha_token without invoking the validator; a non-human
\* verdict leaves nothing stored or published.
C28_GateEveryRequest ==
  useRecaptcha =>
    \A g \in ClaimedGates :
      /\ OnlyHumansPass(g)
      /\ g.pc = "done" /\ NoToken(g.raw) => RefusedUnasked(g)

\* C28 amended: the same, where a request without a token that validation
\* already refused keeps validation's answer; in no case is the validator
\* invoked or anything stored or published for it.
C28_Gate ==
  useRecaptcha =>
    \A g \in ClaimedGates :
      /\ OnlyHumansPass(g)
      /\ g.pc = "done" /\ NoToken(g.raw) => RefusedUnasked(g) \/ RefusedByValidation(g)

\* Some gated operation went through on a human verdict, with the gate on.
C28_Witness ==
  /\ useRecaptcha /\ Human
  /\ \E g \in ClaimedGates : g.effect /\ g.validator = "human" /\ g.pc = "done"

\* A token-less request that passed validation was refused unasked.
C28_WitnessNoToken ==
  /\ useRecaptcha
  /\ \E g \in ClaimedGates : g.pc = "done" /\ NoToken(g.raw) /\ RefusedUnasked(g)



\* The messages of a sequence that are addressed to exactly the address a.
AddressedTo(msgs, a) == {k \in 1..Len(msgs) : msgs[k].to = <<a>>}

\* How often the address occurs in a list of addresses.
Occurrences(addresses, a) == Cardinality({k \in 1..Len(addresses) : addresses[k] = a})

\* The owner addresses that are configured: the entries of OWNER_EMAILS.
ConfiguredOwners == SelectSeq(ninv.ownerEmails, LAMBDA e : e # <<>>)

\* The records the notification manager has finished.
NotifyLog == {ninv.log[k] : k \in 1..Len(ninv.log)}

\* The accepted messages are one per row and one per owner address.
OneMessageEach(accepted, rows, owners) ==
  /\ \A k \in 1..Len(accepted) :
       /\ Len(accepted[k].to) = 1
       /\ \/ \E r \in rows : accepted[k].to[1] = r.email
          \/ \E j \in 1..Len(owners) : accepted[k].to[1] = owners[j]
  /\ \A r \in rows :
       Cardinality(AddressedTo(accepted, r.email)) = 1 + Occurrences(owners, r.email)
  /\ \A j \in 1..Len(owners) :
       Cardinality(AddressedTo(accepted, owners[j]))
         = Occurrences(owners, owners[j])
           + Cardinality({r \in rows : r.email = owners[j]})

\* A record that was not handled to the end published nothing, unless a
\* call failed on the way.
NothingOtherwise(e) ==
  e.outcome \in {"not_found", "ignored"} => e.accepted = <<>> /\ e.attempts = 0 /\ ~e.found

\* C29: for a comment-created event whose comment exists and with no
\* failing call, the notification manager publishes exactly one message for
\* each subscription stored for the photo when it lists them and one for
\* each configured owner address, each addressed to one non-empty
\* recipient; it publishes nothing when the comment is not found and
\* nothing for an event of another type.
C29_OnePerRecipient ==
  \A e \in NotifyLog :
    /\ e.outcome = "handled" =>
         /\ e.found
         /\ OneMessageEach(e.accepted, e.stored, ConfiguredOwners)
         /\ \A k \in 1..Len(e.accepted) : e.accepted[k].to # << <<>> >>
    /\ NothingOtherwise(e)

\* What the handler does guarantee: one message for each subscription the
\* single query returned and one for each entry of the split OWNER_EMAILS
\* (the empty entry included), each to one recipient, and the email topic
\* holds exactly the accepted messages in their order.
C29_OnePerListed ==
  /\ \A e \in NotifyLog :
       /\ e.outcome = "handled" =>
            /\ e.found
            /\ OneMessageEach(e.accepted, {e.listed[k] : k \in 1..Len(e.listed)},
                              ninv.ownerEmails)
       /\ NothingOtherwise(e)
  /\ ninv.pc = "done" =>
       emails = Concat([k \in 1..Len(ninv.log) |-> ninv.log[k].accepted])

\* An event was handled with OWNER_EMAILS unset: a message addressed to
\* the empty recipient is on the email topic.
C29_EmptyRecipient ==
  /\ ninv.pc = "done" /\ ninv.ownerEmails = << <<>> >>
  /\ \E e \in NotifyLog : e.outcome = "handled"
  /\ \E k \in 1..Len(emails) : emails[k].to = << <<>> >>



\* The invocations of the two queue-triggered handlers: r is the loop's
\* state, sends the sends it may make for one record at most.
Running(r) == r.pc \notin {"idle", "done"}

\* The loop is at record k with the records before it logged, in order;
\* it has returned exactly when every record is logged; nothing was raised.
InOrder(r) ==
  r.pc # "idle" =>
    /\ ~r.raised
    /\ r.k \in 1..(Len(r.records) + 1)
    /\ Len(r.log) = r.k - 1
    /\ r.pc = "done" <=> r.k = Len(r.records) + 1

\* One step of the loop: it stays at its record, or logs it and moves to
\* the next; the event and the entries already logged do not change.
LoopStep(r, s) ==
  Running(r) =>
    /\ s.records = r.records
    /\ \/ s.k = r.k /\ s.log = r.log /\ Running(s)
       \/ s.k = r.k + 1 /\ Len(s.log) = Len(r.log) + 1
          /\ SubSeq(s.log, 1, Len(r.log)) = r.log

\* A record that could not be read gets no send.
Unreadable(text) == ~JsonParse(text).ok \/ JsonParse(text).val.t = "null"

\* The notification manager publishes at most once per recipient of a
\* record, and not at all for a record it could not read.
NotifyAtMostOnce ==
  \A k \in 1..Len(ninv.log) :
    LET e == ninv.log[k] IN
    /\ e.attempts <= Len(e.listed) + Len(ninv.ownerEmails)
    /\ Len(e.accepted) <= e.attempts
    /\ e.outcome \in {"handled", "failed", "not_found", "ignored"}
    /\ Unreadable(ninv.records[k]) => e.outcome = "failed" /\ e.attempts = 0

\* The email dispatcher sends at most one mail per record, and every mail
\* of the outbox belongs to a record of its own that is logged as sent.
DispatchAtMostOnce ==
  /\ \A k \in 1..Len(dinv.log) :
       /\ dinv.log[k].attempts \in {0, 1}
       /\ dinv.log[k].outcome \in {"sent", "failed"}
       /\ Unreadable(dinv.records[k]) => dinv.log[k] = [outcome |-> "failed", attempts |-> 0]
       /\ Cardinality({j \in 1..Len(dinv.outbox) : dinv.outbox[j].record = k})
            = IF dinv.log[k].outcome = "sent" THEN 1 ELSE 0
  /\ \A j \in 1..Len(dinv.outbox) : dinv.outbox[j].record \in 1..Len(dinv.log)

\* A running handler can always take its next step.
NeverStuck ==
  /\ Running(ninv) => \/ ENABLED NotifyRecord
                      \/ ENABLED NotifyList(FALSE)
                      \/ ENABLED NotifyGet(FALSE)
                      \/ ENABLED NotifyPublish(FALSE)
  /\ Running(dinv) => ENABLED DispatchRecord(FALSE)

C30_States ==
  /\ InOrder(ninv) /\ InOrder(dinv)
  /\ NotifyAtMostOnce /\ DispatchAtMostOnce
  /\ NeverStuck

C30_Step == LoopStep(ninv, ninv') /\ LoopStep(dinv, dinv')

\* C30: the queue-triggered handlers (notification manager, email
\* dispatcher) process the records of an event one after another in order;
\* a failure on one record (unparsable message, store, publish or mail
\* failure) is logged and the following records are still processed; each
\* record's send is attempted at most once; the handler returns without
\* raising.
C30_RecordLoop == []C30_States /\ [][C30_Step]_vars

\* A handler has returned from an event whose first record failed and
\* whose second record was processed to the end.
C30_Witness ==
  \/ /\ ninv.pc = "done" /\ Len(ninv.log) = 2
     /\ ninv.log[1].outcome = "failed" /\ ninv.log[2].outcome = "handled"
     /\ ninv.log[2].attempts > 0
  \/ /\ dinv.pc = "done" /\ Len(dinv.log) = 2
     /\ dinv.log[1].outcome = "failed" /\ dinv.log[2].outcome = "sent"



\* The list request and the traversal without their ghost mark of a
\* concurrent write.
Unmarked(r) == [r EXCEPT !.dirty = FALSE]

\* A step of a list handler (either mode): the list request advances.
ListSteps == Unmarked(lreq') # Unmarked(lreq) \/ Unmarked(trav') # Unmarked(trav)

\* The step is the successful conditional write of creation i, and it adds
\* exactly the new comment, under a key no stored comment has.
AddsComment(i) ==
  /\ cinv[i].pc = "put" /\ cinv'[i].pc = "publish" /\ cinv'[i].store = "ok"
  /\ cinv'[i].comment \notin comments
  /\ \A c \in comments : ~(c.photoId = cinv'[i].comment.photoId /\ c.sk = cinv'[i].comment.sk)
  /\ comments' = comments \cup {cinv'[i].comment}

C24_Step ==
  /\ comments \subseteq comments'
  /\ comments' # comments => \E i \in 1..NumCreators : AddsComment(i)
  /\ ListSteps => comments' = comments /\ subs' = subs

\* C24: stored comments are immutable and listing is read-only: over every
\* interleaving of the handlers' invocations the comments of a photo change
\* only by a successful comment creation adding one new comment; no stored
\* comment is modified or removed, and a step of a list request (either
\* mode) leaves comments and subscriptions as they were.
C24_CommentsOnlyGrow == [][C24_Step]_vars

\* A list request was answered while a creation wrote to the photo it
\* reads: the comment stored before and the new one are both there.
C24_Witness ==
  /\ lreq.pc = "done" /\ lreq.dirty
  /\ \E i \in 1..NumCreators : cinv[i].store = "ok" /\ cinv[i].comment \in comments
  /\ CommentsBefore \subseteq comments
  /\ Cardinality(comments) = 2

====
